---- MODULE Spec2Model ----
(***************************************************************************)
(* Sea-pay processor: event classification (app/core/parser.py), period    *)
(* grouping, and override reconciliation (app/core/overrides.py,           *)
(* app/routes.py, app/processing.py).                                      *)
(*                                                                         *)
(* Text is modelled as a sequence of lines; a line is a leading written    *)
(* date (or none) followed by a sequence of word tokens.  Strings built by *)
(* the program (labels, reasons) are modelled as token sequences so that   *)
(* "x in up" is contiguous-subsequence matching and len() is a character   *)
(* count.                                                                  *)
(***************************************************************************)
EXTENDS Integers, Sequences, FiniteSets, TLC

VARIABLES
    text,        \* parser run: the OCR text handed to parse_rows
    year,        \* parser run: fallback year (extract_year_from_filename)
    pc,          \* parser run: "start" | "parsed" | "grouped" | "raised"
    rows,        \* parse_rows result: valid rows
    skipped_duplicates,  \* parse_rows result
    skipped_unknown,     \* parse_rows result
    groups,      \* group_by_ship result (periods)
    sheet_text,  \* DATA_DIR: file name -> OCR text of the sheet
    review,      \* SEA_PAY_REVIEW.json: member_key -> member record
    store,       \* OVERRIDES_DIR: path -> the stored list, or NoFile
    clock,       \* number of overrides saved so far (their timestamps)
    ov_target,   \* history: (path, sheet, locator) -> signature of the event
                 \*   the request pointed at when the override was saved
    last_pass,   \* history: what the latest apply_overrides call did
    trail,       \* history: "none" | "processed" | "saved" | "cleared" | "resaved"
                 \*   | "aborted"
    req,         \* the api_override_save requests in flight, step by step
    job          \* the process_all job in flight, step by step

parserVars == <<text, year, pc, rows, skipped_duplicates, skipped_unknown, groups>>

overrideVars ==
    <<sheet_text, review, store, clock, ov_target, last_pass, trail, req, job>>

\* no request and no job in flight
NoRequests == <<>>

NoJob == [at |-> "idle"]

(***************************************************************************)
(* Bounds                                                                  *)
(***************************************************************************)
MaxLines == 3
MaxRows == 4
MaxWords == 4
MaxIndex == 2
MaxSaves == 2

(***************************************************************************)
(* Generic helpers                                                         *)
(***************************************************************************)
NoneVal == <<"\\None">>          \* Python None where a string may also stand

RECURSIVE SeqSum(_)
SeqSum(s) == IF s = <<>> THEN 0 ELSE Head(s) + SeqSum(Tail(s))

RECURSIVE Concat(_)
Concat(ss) == IF ss = <<>> THEN <<>> ELSE Head(ss) \o Concat(Tail(ss))

SeqOfLen(S, n) == [1..n -> S]
SeqsUpTo(S, n) == UNION {SeqOfLen(S, k) : k \in 0..n}

\* "kw in up" for token sequences: kw occurs as a contiguous run of up
Contains(up, kw) ==
    \E i \in 0..(Len(up) - Len(kw)) :
        \A j \in 1..Len(kw) : up[i + j] = kw[j]

(***************************************************************************)
(* Written dates: the groups the regex                                     *)
(*   \s*(\d{1,2})/(\d{1,2})(?:/(\d{2,4}))?                                 *)
(* captures from the modelled date spellings.  yl is the number of year    *)
(* digits written (0 = no year).                                           *)
(***************************************************************************)
NoDate == ""

DateGroups(s) ==
    CASE s = "8/1/2025"   -> [mm |-> 8,  dd |-> 1,  yy |-> 2025, yl |-> 4]
      [] s = "8/2/2025"   -> [mm |-> 8,  dd |-> 2,  yy |-> 2025, yl |-> 4]
      [] s = "8/3/2025"   -> [mm |-> 8,  dd |-> 3,  yy |-> 2025, yl |-> 4]
      [] s = "8/1"        -> [mm |-> 8,  dd |-> 1,  yy |-> 0,    yl |-> 0]
      [] s = "8/2"        -> [mm |-> 8,  dd |-> 2,  yy |-> 0,    yl |-> 0]
      [] s = "08/01/25"   -> [mm |-> 8,  dd |-> 1,  yy |-> 25,   yl |-> 2]
      [] s = "8/1/25"     -> [mm |-> 8,  dd |-> 1,  yy |-> 25,   yl |-> 2]
      [] s = "08/01/2025" -> [mm |-> 8,  dd |-> 1,  yy |-> 2025, yl |-> 4]
      [] s = "13/45/2025" -> [mm |-> 13, dd |-> 45, yy |-> 2025, yl |-> 4]
      [] s = "8/1/025"    -> [mm |-> 8,  dd |-> 1,  yy |-> 25,   yl |-> 3]

\* y = ("20" + yy) if yy and len(yy) == 2 else yy or year
\* date = f"{mm.zfill(2)}/{dd.zfill(2)}/{y}"
NormDate(s, yr) ==
    LET g == DateGroups(s) IN
    [mm |-> g.mm, dd |-> g.dd,
     y  |-> IF g.yl = 2 THEN 2000 + g.yy ELSE IF g.yl # 0 THEN g.yy ELSE yr,
     yl |-> IF g.yl = 2 THEN 4 ELSE IF g.yl # 0 THEN g.yl ELSE 4]

(***************************************************************************)
(* Words                                                                   *)
(***************************************************************************)
ShipRegistry == {"ALPHA", "BRAVO", "CHAFEE"}

\* str.upper() on the modelled words
Upper(w) ==
    CASE w = "sbtt"  -> "SBTT"
      [] w = "alpha" -> "ALPHA"
      [] OTHER       -> w

UpperSeq(ws) == [i \in DOMAIN ws |-> Upper(ws[i])]

\* a word that holds the mission tag as a substring
HasTag(w, tag) == w = tag \/ (tag = "M1" /\ w = "(M1)")

\* len() of a word, in characters
CharLen(w) ==
    CASE w \in {"ALPHA", "BRAVO", "ASTAC"} -> 5
      [] w = "CHAFEE" -> 6
      [] w \in {"SBTT", "MITE"} -> 4
      [] w = "ASW" -> 3
      [] OTHER -> 1

\* len() of a string of words joined by single spaces
StrLen(ws) ==
    IF ws = <<>> THEN 0
    ELSE SeqSum([i \in DOMAIN ws |-> CharLen(ws[i])]) + (Len(ws) - 1)

\* vessel lookup collaborator: the first word of the text that names a
\* registry ship (case-insensitive); words in parentheses, digits and
\* punctuation never match
match_ship(raw) ==
    LET up   == UpperSeq(raw)
        hits == {i \in DOMAIN up : up[i] \in ShipRegistry}
    IN IF hits = {} THEN NoneVal
       ELSE <<up[CHOOSE i \in hits : \A j \in hits : i <= j]>>

(***************************************************************************)
(* app/core/parser.py                                                      *)
(***************************************************************************)
\* mutant: the SBTT rule is tried before the two MITE rules
detect_inport_label_SbttFirst(raw, upper) ==
    IF Contains(upper, <<"SBTT">>) THEN
        (IF match_ship(raw) # NoneVal THEN match_ship(raw) \o <<"SBTT">>
         ELSE <<"SBTT">>)
    ELSE IF Contains(upper, <<"ASW", "MITE">>) THEN <<"ASW", "MITE">>
    ELSE IF Contains(upper, <<"ASTAC", "MITE">>) THEN <<"ASTAC", "MITE">>
    ELSE IF Contains(upper, <<"MITE">>) THEN <<"MITE">>
    ELSE NoneVal

detect_inport_label(raw, upper) ==
    IF Contains(upper, <<"ASW", "MITE">>) THEN <<"ASW", "MITE">>
    ELSE IF Contains(upper, <<"ASTAC", "MITE">>) THEN <<"ASTAC", "MITE">>
    ELSE IF Contains(upper, <<"SBTT">>) THEN
        (IF match_ship(raw) # NoneVal THEN match_ship(raw) \o <<"SBTT">>
         ELSE <<"SBTT">>)
    ELSE IF Contains(upper, <<"MITE">>) THEN <<"MITE">>
    ELSE NoneVal

\* the words of a whole line, its written date included
LineWords(line) ==
    IF line.dt = NoDate THEN line.toks ELSE <<line.dt>> \o line.toks

\* PASS 1, one line: raw = line[m.end():] (+ " " + lines[i + 1])
MakeEntry(lines, i, yr) ==
    LET raw == lines[i].toks \o
               (IF i + 1 <= Len(lines) THEN LineWords(lines[i + 1]) ELSE <<>>)
    IN [raw |-> raw, upper |-> UpperSeq(raw),
        date |-> NormDate(lines[i].dt, yr), line_index |-> i - 1]

\* PASS 1: the entries in line order (lines without a leading date skipped)
RECURSIVE EntriesFrom(_, _, _)
EntriesFrom(lines, i, yr) ==
    IF i > Len(lines) THEN <<>>
    ELSE (IF lines[i].dt = NoDate THEN <<>> ELSE <<MakeEntry(lines, i, yr)>>)
         \o EntriesFrom(lines, i + 1, yr)

Entries(lines, yr) == EntriesFrom(lines, 1, yr)

\* mutant: a date is appended to date_order at each of its entries
DateOrder_NoDedup(es) == [i \in DOMAIN es |-> es[i].date]

\* date_order: the normalized dates in order of first appearance
RECURSIVE DateOrder(_)
DateOrder(es) ==
    IF es = <<>> THEN <<>>
    ELSE LET d == Head(es).date
         IN <<d>> \o DateOrder(SelectSeq(Tail(es), LAMBDA e : e.date # d))

\* per_date_entries[date]
EntriesOf(es, d) == SelectSeq(es, LAMBDA e : e.date = d)

is_mission(e) ==
    \E i \in DOMAIN e.upper :
        \E tag \in {"M1", "M-1", "M2", "M-2"} : HasTag(e.upper[i], tag)

\* PASS 2, first loop body: occurrence index and classification of one entry
Classify(e, occ) ==
    LET label  == detect_inport_label(e.raw, e.upper)
        inport == label # NoneVal
        ship   == IF inport THEN NoneVal ELSE match_ship(e.raw)
    IN [raw |-> e.raw, upper |-> e.upper, date |-> e.date,
        line_index |-> e.line_index, occ_idx |-> occ,
        is_inport |-> inport, inport_label |-> label, ship |-> ship,
        kind |-> IF inport THEN "none"
                 ELSE IF ship # NoneVal THEN "valid" ELSE "unknown"]

\* mutant: the occurrence counter runs down from the number of entries
ClassifyAll_CountDown(es) == [i \in DOMAIN es |-> Classify(es[i], Len(es) - i + 1)]

ClassifyAll(es) == [i \in DOMAIN es |-> Classify(es[i], i)]

\* the most specific (longest) label seen on the date
RECURSIVE InportVariant(_, _)
InportVariant(es, cur) ==
    IF es = <<>> THEN cur
    ELSE LET e == Head(es)
             nxt == IF e.is_inport /\ (cur = NoneVal
                                       \/ StrLen(e.inport_label) > StrLen(cur))
                    THEN e.inport_label ELSE cur
         IN InportVariant(Tail(es), nxt)

Reason(base, label) == [base |-> base, label |-> label]

\* CASE 1: one invalid record for an entry of an in-port date
InportRecord(e, variant) ==
    IF e.is_inport
    THEN [date |-> e.date, raw |-> e.raw, occ_idx |-> e.occ_idx,
          ship |-> e.inport_label,
          reason |-> Reason("In-Port Shore Side Event", e.inport_label)]
    ELSE [date |-> e.date, raw |-> e.raw, occ_idx |-> e.occ_idx,
          ship |-> IF e.ship # NoneVal THEN e.ship ELSE <<"UNK">>,
          reason |-> Reason(IF e.kind = "unknown"
                            THEN "Unknown or Non-Platform Event"
                            ELSE "Suppressed by In-Port Shore Side Event",
                            variant)]

UnknownRecord(e) ==
    [date |-> e.date, raw |-> e.raw, occ_idx |-> e.occ_idx, ship |-> NoneVal,
     reason |-> Reason("Unknown or Non-Platform Event", <<>>)]

UnknownRecords(es) ==
    LET unk == SelectSeq(es, LAMBDA e : e.kind = "unknown")
    IN [i \in DOMAIN unk |-> UnknownRecord(unk[i])]

\* sorted(xs, key=occ_idx)[0]
MinOcc(xs) ==
    xs[CHOOSE i \in DOMAIN xs : \A j \in DOMAIN xs : xs[i].occ_idx <= xs[j].occ_idx]

\* mutant: mission tags ignored
Kept_NoMission(valids) ==
    LET ships_set == {valids[i].ship : i \in DOMAIN valids}
    IN IF Cardinality(ships_set) = 1 THEN valids[1] ELSE MinOcc(valids)

\* mutant: the last same-ship entry kept instead of the first
Kept_Last(valids) ==
    LET ships_set      == {valids[i].ship : i \in DOMAIN valids}
        mission_valids == SelectSeq(valids, is_mission)
    IN IF Cardinality(ships_set) = 1 THEN valids[Len(valids)]
       ELSE IF mission_valids # <<>> THEN MinOcc(mission_valids)
       ELSE MinOcc(valids)

\* the entry kept as the date's valid row
Kept(valids) ==
    LET ships_set      == {valids[i].ship : i \in DOMAIN valids}
        mission_valids == SelectSeq(valids, is_mission)
    IN IF Cardinality(ships_set) = 1 THEN valids[1]
       ELSE IF mission_valids # <<>> THEN MinOcc(mission_valids)
       ELSE MinOcc(valids)

\* mutant: only the first of the remaining valid entries is recorded
DuplicateRecords_FirstOnly(valids, kept) ==
    LET rest == SelectSeq(valids, LAMBDA e : e.occ_idx # kept.occ_idx)
    IN IF rest = <<>> THEN <<>>
       ELSE <<[date |-> rest[1].date, ship |-> rest[1].ship,
               occ_idx |-> rest[1].occ_idx,
               reason |-> Reason("Duplicate entry for date", <<>>)]>>

DuplicateRecords(valids, kept) ==
    LET rest == SelectSeq(valids, LAMBDA e : e.occ_idx # kept.occ_idx)
    IN [i \in DOMAIN rest |->
          [date |-> rest[i].date, ship |-> rest[i].ship,
           occ_idx |-> rest[i].occ_idx,
           reason |-> Reason("Duplicate entry for date", <<>>)]]

\* mutant: an in-port date suppresses only its in-port entries; the other
\* entries are resolved as on a date without in-port entries
DateResult_NoDominance(raw_entries) ==
    LET es      == ClassifyAll(raw_entries)
        variant == InportVariant(es, NoneVal)
        inports == SelectSeq(es, LAMBDA e : e.is_inport)
        valids  == SelectSeq(es, LAMBDA e : e.kind = "valid")
        inrecs  == [i \in DOMAIN inports |-> InportRecord(inports[i], variant)]
    IN IF valids = <<>>
       THEN [rows |-> <<>>, dups |-> <<>>, unks |-> inrecs \o UnknownRecords(es)]
       ELSE LET kept == Kept(valids)
            IN [rows |-> <<[date |-> kept.date, ship |-> kept.ship,
                            occ_idx |-> kept.occ_idx]>>,
                dups |-> DuplicateRecords(valids, kept),
                unks |-> inrecs \o UnknownRecords(es)]

\* PASS 2, one date: what the date appends to rows, skipped_duplicates and
\* skipped_unknown
DateResult(raw_entries) ==
    LET es      == ClassifyAll(raw_entries)
        variant == InportVariant(es, NoneVal)
        valids  == SelectSeq(es, LAMBDA e : e.kind = "valid")
    IN IF variant # NoneVal
       THEN [rows |-> <<>>, dups |-> <<>>,
             unks |-> [i \in DOMAIN es |-> InportRecord(es[i], variant)]]
       ELSE IF valids = <<>>
       THEN [rows |-> <<>>, dups |-> <<>>, unks |-> UnknownRecords(es)]
       ELSE LET kept == Kept(valids)
            IN [rows |-> <<[date |-> kept.date, ship |-> kept.ship,
                            occ_idx |-> kept.occ_idx]>>,
                dups |-> DuplicateRecords(valids, kept),
                unks |-> UnknownRecords(es)]

parse_rows(lines, yr) ==
    LET es    == Entries(lines, yr)
        order == DateOrder(es)
        res   == [k \in DOMAIN order |-> DateResult(EntriesOf(es, order[k]))]
    IN [rows |-> Concat([k \in DOMAIN res |-> res[k].rows]),
        skipped_duplicates |-> Concat([k \in DOMAIN res |-> res[k].dups]),
        skipped_unknown |-> Concat([k \in DOMAIN res |-> res[k].unks])]

(***************************************************************************)
(* datetime: strptime(date, "%m/%d/%Y") and day arithmetic                 *)
(***************************************************************************)
IsLeap(y) == (y % 4 = 0 /\ y % 100 # 0) \/ y % 400 = 0

DaysInMonth(y, m) ==
    IF m = 2 THEN (IF IsLeap(y) THEN 29 ELSE 28)
    ELSE IF m \in {4, 6, 9, 11} THEN 30 ELSE 31

RECURSIVE DaysBeforeMonth(_, _)
DaysBeforeMonth(y, m) ==
    IF m <= 1 THEN 0 ELSE DaysBeforeMonth(y, m - 1) + DaysInMonth(y, m - 1)

\* strptime raises ValueError unless the string is a calendar date written
\* with a four-digit year
StrptimeOk(d) ==
    /\ d.yl = 4 /\ d.y >= 1
    /\ d.mm \in 1..12
    /\ d.dd >= 1 /\ d.dd <= DaysInMonth(d.y, d.mm)

\* the datetime, as its proleptic ordinal (datetime.toordinal)
Strptime(d) ==
    LET y1 == d.y - 1
    IN 365 * y1 + (y1 \div 4) - (y1 \div 100) + (y1 \div 400)
       + DaysBeforeMonth(d.y, d.mm) + d.dd

\* sorted(set(xs)) for a set of integers
RECURSIVE Sorted(_)
Sorted(S) ==
    IF S = {} THEN <<>>
    ELSE LET m == CHOOSE x \in S : \A z \in S : x <= z
         IN <<m>> \o Sorted(S \ {m})

\* the ships in order of first appearance (dict insertion order)
RECURSIVE ShipOrder(_)
ShipOrder(rs) ==
    IF rs = <<>> THEN <<>>
    ELSE LET sh == Head(rs).ship
         IN <<sh>> \o ShipOrder(SelectSeq(Tail(rs), LAMBDA r : r.ship # sh))

\* mutant: a one-day gap does not split the run
RECURSIVE Runs_MergeGap(_, _, _, _)
Runs_MergeGap(ship, dates, start, prev) ==
    IF dates = <<>> THEN <<[ship |-> ship, start |-> start, end |-> prev]>>
    ELSE LET d == Head(dates)
         IN IF d <= prev + 2
            THEN Runs_MergeGap(ship, Tail(dates), start, d)
            ELSE <<[ship |-> ship, start |-> start, end |-> prev]>>
                 \o Runs_MergeGap(ship, Tail(dates), d, d)

\* mutant: a consecutive day closes the period instead of extending it
RECURSIVE Runs_NoExtend(_, _, _, _)
Runs_NoExtend(ship, dates, start, prev) ==
    IF dates = <<>> THEN <<[ship |-> ship, start |-> start, end |-> prev]>>
    ELSE <<[ship |-> ship, start |-> start, end |-> prev]>>
         \o Runs_NoExtend(ship, Tail(dates), Head(dates), Head(dates))

\* the walk over one ship's sorted dates: dates[1:] with start and prev
RECURSIVE Runs(_, _, _, _)
Runs(ship, dates, start, prev) ==
    IF dates = <<>> THEN <<[ship |-> ship, start |-> start, end |-> prev]>>
    ELSE LET d == Head(dates)
         IN IF d = prev + 1
            THEN Runs(ship, Tail(dates), start, d)
            ELSE <<[ship |-> ship, start |-> start, end |-> prev]>>
                 \o Runs(ship, Tail(dates), d, d)

ShipPeriods(rs, ship) ==
    LET dates == Sorted({Strptime(rs[i].date) :
                            i \in {j \in DOMAIN rs : rs[j].ship = ship}})
    IN Runs(ship, Tail(dates), Head(dates), Head(dates))

\* group_by_ship raises when strptime rejects a row's date
group_by_ship_raises(rs) == \E i \in DOMAIN rs : ~StrptimeOk(rs[i].date)

group_by_ship(rs) ==
    LET order == ShipOrder(rs)
    IN Concat([k \in DOMAIN order |-> ShipPeriods(rs, order[k])])

(***************************************************************************)
(* app/processing.py: the review snapshot built from a parsed sheet        *)
(***************************************************************************)
Absent  == "\\absent"            \* a key the dict does not have
NoneS   == "\\None"              \* Python None where a string may also stand
AbsentR == Reason(Absent, <<>>)
NoneR   == Reason(NoneS, <<>>)

NoOverride ==
    [status |-> NoneS, reason |-> NoneR, source |-> NoneS, history |-> <<>>]

\* one entry of sheet_block["rows"]
BuildRow(r, valid_idx) ==
    [event_index |-> valid_idx,
     date |-> r.date, ship |-> r.ship, occ_idx |-> r.occ_idx, raw |-> <<>>,
     is_inport |-> "False", confidence |-> "1.0",
     status |-> "valid", status_reason |-> NoneR,
     reason |-> AbsentR, category |-> Absent, source |-> Absent,
     system_classification |-> [is_valid |-> TRUE, reason |-> NoneS],
     override |-> NoOverride,
     final_classification |->
         [is_valid |-> TRUE, reason |-> NoneR, source |-> "system"]]

\* "in-port" in raw_reason or "shore" in raw_reason, on the lowered reason
MentionsShore(reason) ==
    reason.base \in {"In-Port Shore Side Event",
                     "Suppressed by In-Port Shore Side Event"}

\* one entry of sheet_block["invalid_events"]
BuildInvalid(e, invalid_idx, is_dupe) ==
    LET category == IF is_dupe THEN "duplicate"
                    ELSE IF MentionsShore(e.reason) THEN "shore_side_event"
                    ELSE "unknown"
    IN [event_index |-> -(invalid_idx + 1),
        date |-> e.date, ship |-> e.ship, occ_idx |-> e.occ_idx,
        raw |-> IF is_dupe THEN <<>> ELSE e.raw,
        is_inport |-> Absent, confidence |-> Absent,
        status |-> "invalid", status_reason |-> AbsentR,
        reason |-> e.reason, category |-> category, source |-> "parser",
        system_classification |-> [is_valid |-> FALSE, reason |-> category],
        override |-> NoOverride,
        final_classification |->
            [is_valid |-> FALSE, reason |-> Reason(category, <<>>),
             source |-> "system"]]

\* Confidence heuristics; the confidence in tenths
parse_confidence(parsed_rows, skipped_unk, invalid_events) ==
    IF Len(parsed_rows) = 0 /\ invalid_events # <<>> THEN 4
    ELSE IF Len(skipped_unk) > 0 THEN 7
    ELSE 10

parsing_warnings(parsed_rows, skipped_unk, invalid_events) ==
    (IF Len(skipped_unk) > 0 THEN <<"unknown/suppressed entries detected">>
     ELSE <<>>)
    \o (IF Len(parsed_rows) = 0 /\ invalid_events # <<>>
        THEN <<"Sheet had no valid rows after parser filtering">>
        ELSE <<>>)

\* sheet_block["rows"] and sheet_block["invalid_events"] from the parser's
\* three lists; is_dupe is "e in skipped_dupe"
SheetBlock(file, parsed_rows, skipped_dupe, skipped_unk, all_invalid_source) ==
    [source_file |-> file,
     parse_confidence |->
         parse_confidence(parsed_rows, skipped_unk, all_invalid_source),
     parsing_warnings |->
         parsing_warnings(parsed_rows, skipped_unk, all_invalid_source),
     rows |-> [i \in DOMAIN parsed_rows |-> BuildRow(parsed_rows[i], i - 1)],
     invalid_events |->
         [i \in DOMAIN all_invalid_source |->
             BuildInvalid(all_invalid_source[i], i - 1,
                          \E j \in DOMAIN skipped_dupe :
                              skipped_dupe[j] = all_invalid_source[i])]]

\* the parser's result with skipped_dupe + skipped_unknown joined
WithInvalidSource(p) ==
    [rows |-> p.rows,
     skipped_dupe |-> p.skipped_duplicates,
     skipped_unknown |-> p.skipped_unknown,
     all_invalid_source |-> p.skipped_duplicates \o p.skipped_unknown]

SheetOf(file, q) ==
    SheetBlock(file, q.rows, q.skipped_dupe, q.skipped_unknown, q.all_invalid_source)

\* sheet_block for one file
BuildSheet(file, lines, yr) ==
    SheetOf(file, WithInvalidSource(parse_rows(lines, yr)))

(***************************************************************************)
(* app/core/overrides.py                                                   *)
(***************************************************************************)
\* an override file: whether it exists, what json.load makes of it
\* ("record": a dict, overrides holding its "overrides" list, empty when the
\* key is missing; "unreadable": json.load raises; "not_record": a JSON
\* value that is not a dict, such as a list) and the entries stored
NoFile == [exists |-> FALSE, shape |-> "none", overrides |-> <<>>]

RecordFile(overrides) == [exists |-> TRUE, shape |-> "record", overrides |-> overrides]

\* member_key.replace(" ", "_").replace(",", "_"), on the key's characters
override_path(member_key) ==
    [i \in DOMAIN member_key |->
        IF member_key[i] \in {" ", ","} THEN "_" ELSE member_key[i]]

\* str() of a value that may be None
Str(x) == IF x = NoneVal THEN <<"None">> ELSE x

\* f"{date}|{ship}|{occ_idx}|{raw}"
make_event_signature(event) ==
    <<event.date, Str(event.ship), event.occ_idx, event.raw>>

\* load_overrides(member_key).get("overrides", [])
load_overrides(files, member_key) ==
    LET path == override_path(member_key)
    IN IF path \notin DOMAIN files \/ ~files[path].exists THEN <<>>
       ELSE IF files[path].shape = "unreadable" THEN <<>>
       ELSE files[path].overrides

\* load_overrides(member_key).get(...) and data["overrides"] = ... raise on
\* a loaded value that is not a dict
loaded_not_record(files, member_key) ==
    LET path == override_path(member_key)
    IN /\ path \in DOMAIN files
       /\ files[path].exists
       /\ files[path].shape = "not_record"

\* ov.get(key) == value, for a key the entry may lack
GetIs(ov, key, value) == key \in DOMAIN ov /\ ov[key] = value

\* ov["event_index"], ov["override_status"], ov["override_reason"] raise
\* KeyError on an entry that lacks one of them
EntryKeyError(ov) ==
    ~({"event_index", "override_status", "override_reason"} \subseteq DOMAIN ov)

\* [ov for ov in overrides if ov.get("sheet_file") == sheet_file]
SheetOverrides(overrides, sheet_file) ==
    SelectSeq(overrides, LAMBDA ov : GetIs(ov, "sheet_file", sheet_file))

\* mutant: the entries to replace are found by event_index alone
save_override_IndexOnly(files, member_key, sheet_file, event_index, status, reason, source, now) ==
    Append(SelectSeq(load_overrides(files, member_key),
                     LAMBDA ov : ~GetIs(ov, "event_index", event_index)),
           [sheet_file |-> sheet_file, event_index |-> event_index,
            override_status |-> status, override_reason |-> reason,
            source |-> source, timestamp |-> now])

\* the list save_override writes back
save_override(files, member_key, sheet_file, event_index, status, reason, source, now) ==
    LET new_override == [sheet_file |-> sheet_file, event_index |-> event_index,
                         override_status |-> status, override_reason |-> reason,
                         source |-> source, timestamp |-> now]
        kept == SelectSeq(load_overrides(files, member_key),
                          LAMBDA ov : ~(GetIs(ov, "sheet_file", sheet_file)
                                        /\ GetIs(ov, "event_index", event_index)))
    IN Append(kept, new_override)

\* list.pop(idx), idx counted from 0
Pop(xs, idx) == [i \in 1..(Len(xs) - 1) |-> IF i <= idx THEN xs[i] ELSE xs[i + 1]]

\* all_events[sig]: the last event registered under the signature, the
\* invalid events registered after the valid rows
Lookup(valid_rows, invalid_events, sig) ==
    LET iv == {i \in DOMAIN invalid_events :
                  make_event_signature(invalid_events[i]) = sig}
        vv == {i \in DOMAIN valid_rows :
                  make_event_signature(valid_rows[i]) = sig}
        Max(S) == CHOOSE x \in S : \A z \in S : z <= x
    IN IF iv # {} THEN [found |-> TRUE, location |-> "invalid", idx |-> Max(iv) - 1]
       ELSE IF vv # {} THEN [found |-> TRUE, location |-> "valid", idx |-> Max(vv) - 1]
       ELSE [found |-> FALSE, location |-> "none", idx |-> 0]

\* mutant: a position past the end of valid_rows addresses its last row
Resolve_Wrap(valid_rows, invalid_events, ov) ==
    LET original_idx == ov.event_index
        none == [found |-> FALSE, location |-> "none", idx |-> 0]
    IN IF original_idx >= 0 /\ valid_rows # <<>>
       THEN Lookup(valid_rows, invalid_events,
                   make_event_signature(
                       valid_rows[IF original_idx < Len(valid_rows)
                                  THEN original_idx + 1 ELSE Len(valid_rows)]))
       ELSE IF original_idx < 0 /\ (-original_idx - 1) < Len(invalid_events)
       THEN Lookup(valid_rows, invalid_events,
                   make_event_signature(invalid_events[(-original_idx - 1) + 1]))
       ELSE none

\* STEP 2: the event at the override's recorded position, then its entry in
\* the signature map
Resolve(valid_rows, invalid_events, ov) ==
    LET original_idx == ov.event_index
        none == [found |-> FALSE, location |-> "none", idx |-> 0]
    IN IF original_idx >= 0 /\ original_idx < Len(valid_rows)
       THEN Lookup(valid_rows, invalid_events,
                   make_event_signature(valid_rows[original_idx + 1]))
       ELSE IF original_idx < 0 /\ (-original_idx - 1) < Len(invalid_events)
       THEN Lookup(valid_rows, invalid_events,
                   make_event_signature(invalid_events[(-original_idx - 1) + 1]))
       ELSE none

OverrideOf(target_event, ov) ==
    [status |-> ov.override_status, reason |-> ov.override_reason,
     source |-> ov.source, history |-> target_event.override.history]

\* mutant: the move to invalid_events drops the ship, as the parser's own
\* unknown records have none
NewInvalid_DropShip(target_event, ov) ==
    [target_event EXCEPT
        !.ship = NoneVal,
        !.reason = IF ov.override_reason.base # ""
                   THEN ov.override_reason
                   ELSE Reason("Forced invalid by override", <<>>),
        !.category = "override",
        !.source = "override",
        !.override = OverrideOf(target_event, ov),
        !.final_classification =
            [is_valid |-> FALSE, reason |-> ov.override_reason, source |-> "override"],
        !.status = "invalid",
        !.status_reason = ov.override_reason]

\* new_invalid: the record appended to invalid_events for a valid -> invalid move
NewInvalid(target_event, ov) ==
    [target_event EXCEPT
        !.reason = IF ov.override_reason.base # ""
                   THEN ov.override_reason
                   ELSE Reason("Forced invalid by override", <<>>),
        !.category = "override",
        !.source = "override",
        !.override = OverrideOf(target_event, ov),
        !.final_classification =
            [is_valid |-> FALSE, reason |-> ov.override_reason, source |-> "override"],
        !.status = "invalid",
        !.status_reason = ov.override_reason]

\* new_row: the record appended to valid_rows for an invalid -> valid move
NewRow(target_event, ov) ==
    [target_event EXCEPT
        !.status = "valid",
        !.status_reason = ov.override_reason,
        !.override = OverrideOf(target_event, ov),
        !.final_classification =
            [is_valid |-> TRUE, reason |-> ov.override_reason, source |-> "override"],
        !.is_inport = IF @ = Absent THEN "False" ELSE @,
        !.confidence = IF @ = Absent THEN "1.0" ELSE @]

\* mutant: the update in place also rewrites the event's reason
KeepValid_Reason(target_event, ov) ==
    [target_event EXCEPT
        !.override = OverrideOf(target_event, ov),
        !.final_classification =
            [is_valid |-> TRUE, reason |-> ov.override_reason, source |-> "override"],
        !.reason = ov.override_reason,
        !.status = IF @ = Absent THEN @ ELSE ov.override_status,
        !.status_reason = IF target_event.status = Absent THEN @
                          ELSE ov.override_reason]

\* update in place, the event staying in valid_rows
KeepValid(target_event, ov) ==
    [target_event EXCEPT
        !.override = OverrideOf(target_event, ov),
        !.final_classification =
            [is_valid |-> TRUE, reason |-> ov.override_reason, source |-> "override"],
        !.status = IF @ = Absent THEN @ ELSE ov.override_status,
        !.status_reason = IF target_event.status = Absent THEN @
                          ELSE ov.override_reason]

\* update in place, the event staying in invalid_events
KeepInvalid(target_event, ov) ==
    [target_event EXCEPT
        !.override = OverrideOf(target_event, ov),
        !.final_classification =
            [is_valid |-> FALSE, reason |-> ov.override_reason, source |-> "override"]]

\* what one override of the pass did (history only)
PassEntry(sheet_file, ov, valid_rows, invalid_events) ==
    LET r     == Resolve(valid_rows, invalid_events, ov)
        ev    == IF r.location = "valid" THEN valid_rows[r.idx + 1]
                 ELSE invalid_events[r.idx + 1]
        moved == r.found /\ ((r.location = "valid") = (ov.override_status = "invalid"))
        after == IF ~r.found THEN <<>>
                 ELSE IF ~moved THEN make_event_signature(ev)
                 ELSE IF r.location = "valid"
                      THEN make_event_signature(NewInvalid(ev, ov))
                      ELSE make_event_signature(NewRow(ev, ov))
    IN [sheet_file |-> sheet_file, event_index |-> ov.event_index,
        status |-> ov.override_status,
        found |-> r.found, location |-> r.location, idx |-> r.idx,
        moved |-> moved,
        sig_before |-> IF r.found THEN make_event_signature(ev) ELSE <<>>,
        sig_after |-> after]

\* STEP 2 and STEP 3 for one override; st holds valid_rows, invalid_events
\* and the two pending move lists
ApplyOne(st, ov) ==
    LET r == Resolve(st.valid_rows, st.invalid_events, ov)
    IN IF ~r.found THEN st
       ELSE IF r.location = "valid"
       THEN (IF ov.override_status = "invalid"
             THEN [st EXCEPT !.moves_to_invalid =
                      Append(@, [idx |-> r.idx,
                                 rec |-> NewInvalid(st.valid_rows[r.idx + 1], ov)])]
             ELSE [st EXCEPT !.valid_rows[r.idx + 1] = KeepValid(@, ov)])
       ELSE (IF ov.override_status = "valid"
             THEN [st EXCEPT !.moves_to_valid =
                      Append(@, [idx |-> r.idx,
                                 rec |-> NewRow(st.invalid_events[r.idx + 1], ov)])]
             ELSE [st EXCEPT !.invalid_events[r.idx + 1] = KeepInvalid(@, ov)])

RECURSIVE ApplyEach(_, _)
ApplyEach(st, ovs) ==
    IF ovs = <<>> THEN st ELSE ApplyEach(ApplyOne(st, Head(ovs)), Tail(ovs))

\* mutant: the moves are executed in the order the overrides were stored
SortMoves_Unsorted(moves) == moves

\* moves.sort(reverse=True, key=lambda x: x[0]): stable, highest index first
RECURSIVE SortMoves(_)
SortMoves(moves) ==
    IF moves = <<>> THEN <<>>
    ELSE LET top == CHOOSE i \in DOMAIN moves :
                       /\ \A j \in DOMAIN moves : moves[j].idx <= moves[i].idx
                       /\ \A j \in 1..(i - 1) : moves[j].idx < moves[i].idx
         IN <<moves[top]>> \o SortMoves(Pop(moves, top - 1))

\* STEP 4, valid -> invalid: invalid_events.append(new); valid_rows.pop(idx)
RECURSIVE ExecToInvalid(_, _, _)
ExecToInvalid(valid_rows, invalid_events, moves) ==
    IF moves = <<>>
    THEN [valid_rows |-> valid_rows, invalid_events |-> invalid_events,
          raised |-> FALSE]
    ELSE IF Head(moves).idx >= Len(valid_rows)
    THEN [valid_rows |-> valid_rows, invalid_events |-> invalid_events,
          raised |-> TRUE]
    ELSE ExecToInvalid(Pop(valid_rows, Head(moves).idx),
                       Append(invalid_events, Head(moves).rec), Tail(moves))

\* STEP 4, invalid -> valid: valid_rows.append(new); invalid_events.pop(idx)
RECURSIVE ExecToValid(_, _, _)
ExecToValid(valid_rows, invalid_events, moves) ==
    IF moves = <<>>
    THEN [valid_rows |-> valid_rows, invalid_events |-> invalid_events,
          raised |-> FALSE]
    ELSE IF Head(moves).idx >= Len(invalid_events)
    THEN [valid_rows |-> valid_rows, invalid_events |-> invalid_events,
          raised |-> TRUE]
    ELSE ExecToValid(Append(valid_rows, Head(moves).rec),
                     Pop(invalid_events, Head(moves).idx), Tail(moves))

\* the body of "for sheet in sheets" for one sheet
ApplySheet(sheet, overrides) ==
    LET sheet_overrides == SheetOverrides(overrides, sheet.source_file)
        st0 == [valid_rows |-> sheet.rows, invalid_events |-> sheet.invalid_events,
                moves_to_invalid |-> <<>>, moves_to_valid |-> <<>>]
        st1 == ApplyEach(st0, sheet_overrides)
        a   == ExecToInvalid(st1.valid_rows, st1.invalid_events,
                             SortMoves(st1.moves_to_invalid))
        b   == ExecToValid(a.valid_rows, a.invalid_events,
                           SortMoves(st1.moves_to_valid))
    IN IF sheet_overrides = <<>> THEN [sheet |-> sheet, raised |-> FALSE]
       ELSE IF \E i \in DOMAIN sheet_overrides : EntryKeyError(sheet_overrides[i])
       THEN [sheet |-> sheet, raised |-> TRUE]
       ELSE IF a.raised THEN [sheet |-> sheet, raised |-> TRUE]
       ELSE [sheet |-> [sheet EXCEPT !.rows = b.valid_rows,
                                     !.invalid_events = b.invalid_events],
             raised |-> b.raised]

\* apply_overrides(member_key, review_state_member), the overrides loaded
apply_overrides(overrides, member) ==
    IF overrides = <<>> THEN member
    ELSE [member EXCEPT !.sheets =
             [k \in DOMAIN member.sheets |->
                 ApplySheet(member.sheets[k], overrides).sheet]]

\* a KeyError of an incomplete entry or an IndexError of list.pop
\* propagates out of apply_overrides
apply_overrides_raises(overrides, member) ==
    \E k \in DOMAIN member.sheets : ApplySheet(member.sheets[k], overrides).raised

\* history: one entry per override and sheet the pass looked at, in order
RECURSIVE SheetLog(_, _, _, _)
SheetLog(sheet_file, st, ovs, acc) ==
    IF ovs = <<>> THEN acc
    ELSE SheetLog(sheet_file, ApplyOne(st, Head(ovs)), Tail(ovs),
                  Append(acc, PassEntry(sheet_file, Head(ovs),
                                        st.valid_rows, st.invalid_events)))

PassLog(overrides, member) ==
    Concat([k \in DOMAIN member.sheets |->
        LET sheet == member.sheets[k]
        IN SheetLog(sheet.source_file,
                    [valid_rows |-> sheet.rows,
                     invalid_events |-> sheet.invalid_events,
                     moves_to_invalid |-> <<>>, moves_to_valid |-> <<>>],
                    SheetOverrides(overrides, sheet.source_file),
                    <<>>)])

(***************************************************************************)
(* Parser runs: the inputs                                                 *)
(***************************************************************************)
Line(dt, toks) == [dt |-> dt, toks |-> toks]

LineContents ==
    {<<"ALPHA">>, <<"BRAVO">>, <<"BRAVO", "(M1)">>, <<"SBTT">>, <<"X">>}

LineSet ==
    {Line(dt, toks) : dt \in {"8/1/2025", "8/2/2025"}, toks \in LineContents}
    \cup {Line(NoDate, <<>>)}

\* the sheet of the end-to-end example
ExampleText ==
    <<Line("8/1/2025", <<"CHAFEE", "0800", "1600">>),
      Line("8/2/2025", <<"CHAFEE", "0800", "1600">>),
      Line("8/3/2025", <<"SBTT">>)>>

Texts == SeqsUpTo(LineSet, MaxLines) \cup {ExampleText}

\* one-line sheets whose entry holds up to MaxWords keywords and names
LabelWords == {"ASW", "ASTAC", "MITE", "SBTT", "ALPHA", "X"}

LabelTexts == {<<Line("8/1/2025", ws)>> : ws \in SeqsUpTo(LabelWords, MaxWords)}

\* lines whose dates are written in several forms, some of them no calendar
\* date
DateForms == {"8/1/25", "08/01/2025", "8/1", "8/2/2025", "13/45/2025", "8/1/025"}

DateLineSet ==
    {Line(dt, toks) : dt \in DateForms, toks \in {<<"ALPHA">>, <<"BRAVO">>}}
    \cup {Line(NoDate, <<>>)}

DateTexts == SeqsUpTo(DateLineSet, MaxLines)

FallbackYears == {2025}

GroupDates ==
    {[mm |-> 7, dd |-> 31, y |-> 2025, yl |-> 4],
     [mm |-> 8, dd |-> 1,  y |-> 2025, yl |-> 4],
     [mm |-> 8, dd |-> 2,  y |-> 2025, yl |-> 4],
     [mm |-> 8, dd |-> 4,  y |-> 2025, yl |-> 4],
     [mm |-> 2, dd |-> 29, y |-> 2025, yl |-> 4]}

RowSet ==
    {[date |-> d, ship |-> <<sh>>, occ_idx |-> 1] :
        d \in GroupDates, sh \in {"ALPHA", "BRAVO"}}

(***************************************************************************)
(* Parser runs: the steps of process_all for one sheet                     *)
(***************************************************************************)
\* rows, skipped_dupe, skipped_unknown = parse_rows(raw, year)
ParseRows ==
    /\ pc = "start"
    /\ LET r == parse_rows(text, year)
       IN /\ rows' = r.rows
          /\ skipped_duplicates' = r.skipped_duplicates
          /\ skipped_unknown' = r.skipped_unknown
    /\ pc' = "parsed"
    /\ UNCHANGED <<text, year, groups>>
    /\ UNCHANGED overrideVars

\* groups = group_by_ship(rows)
GroupByShip ==
    /\ pc = "parsed"
    /\ IF group_by_ship_raises(rows)
       THEN pc' = "raised" /\ UNCHANGED groups
       ELSE pc' = "grouped" /\ groups' = group_by_ship(rows)
    /\ UNCHANGED <<text, year, rows, skipped_duplicates, skipped_unknown>>
    /\ UNCHANGED overrideVars

InitParserIdle ==
    /\ text = <<>> /\ year = 2025 /\ pc = "idle"
    /\ rows = <<>> /\ skipped_duplicates = <<>> /\ skipped_unknown = <<>>
    /\ groups = <<>>

(***************************************************************************)
(* Review and override store: inputs                                       *)
(***************************************************************************)
\* member_key = f"{rate} {last},{first}", as its characters
M1 == <<"R", " ", "A", ",", "B">>

\* the members in the order process_all meets them
MemberList == <<M1>>

Members == {MemberList[k] : k \in DOMAIN MemberList}

\* sorted(files): the uploaded sheets in file-name order
FileList == <<"f1">>

Files == {FileList[i] : i \in DOMAIN FileList}

\* the member resolve_identity gives for the name on the sheet
Owner(file) == M1

\* a sheet with two valid rows and a duplicate
SheetA ==
    <<Line("8/1/2025", <<"ALPHA">>),
      Line("8/2/2025", <<"BRAVO">>),
      Line("8/2/2025", <<"BRAVO">>)>>

SheetTexts == {SheetA, ExampleText}

\* the fallback year process_all takes from the file name
FileYear(file) == 2025

\* request fields of POST /api/override that pass validation
SheetFileInputs == Files \cup {"fX"}

MaxEvents ==
    CHOOSE n \in 0..8 :
        /\ \A t \in SheetTexts : Len(Entries(t, 2025)) <= n
        /\ \E t \in SheetTexts : Len(Entries(t, 2025)) = n

IndexInputs == 0..MaxEvents

ReasonInputs == {Reason("", <<>>), Reason("fix", <<>>)}

Paths == {override_path(m) : m \in Members}

\* entries as save_override writes them
CompleteEntries ==
    {[sheet_file |-> "f1", event_index |-> i, override_status |-> st,
      override_reason |-> Reason("", <<>>), source |-> "manual", timestamp |-> 0] :
        i \in {0, -1}, st \in {"valid", "invalid"}}

\* entries of a hand-edited or half-written file: one without event_index,
\* one without sheet_file
IncompleteEntries ==
    {[sheet_file |-> "f1", override_status |-> "invalid",
      override_reason |-> Reason("", <<>>), source |-> "manual", timestamp |-> 0],
     [event_index |-> 0, override_status |-> "invalid",
      override_reason |-> Reason("", <<>>), source |-> "manual", timestamp |-> 0]}

MaxStored == 2

\* the override file of a member as process_all may find it
StoreFiles ==
    {NoFile,
     [exists |-> TRUE, shape |-> "unreadable", overrides |-> <<>>],
     [exists |-> TRUE, shape |-> "not_record", overrides |-> <<>>]}
    \cup {RecordFile(ovs) :
             ovs \in SeqsUpTo(CompleteEntries \cup IncompleteEntries, MaxStored)}

InitOverridesIdle ==
    /\ sheet_text = [f \in Files |-> <<>>]
    /\ review = <<>>
    /\ store = [p \in Paths |-> NoFile]
    /\ clock = 0
    /\ ov_target = {}
    /\ last_pass = <<>>
    /\ trail = "none"
    /\ req = NoRequests
    /\ job = NoJob

InitParse ==
    /\ text \in Texts
    /\ year \in FallbackYears
    /\ pc = "start"
    /\ rows = <<>> /\ skipped_duplicates = <<>> /\ skipped_unknown = <<>>
    /\ groups = <<>>
    /\ InitOverridesIdle

InitGroup ==
    /\ text = <<>>
    /\ year \in FallbackYears
    /\ pc = "parsed"
    /\ rows \in SeqsUpTo(RowSet, MaxRows)
    /\ skipped_duplicates = <<>> /\ skipped_unknown = <<>>
    /\ groups = <<>>
    /\ InitOverridesIdle

\* uploaded sheets, no review snapshot and no stored override yet
Init ==
    /\ InitParserIdle
    /\ sheet_text \in [Files -> SheetTexts]
    /\ review = <<>>
    /\ store = [p \in Paths |-> NoFile]
    /\ clock = 0
    /\ ov_target = {}
    /\ last_pass = <<>>
    /\ trail = "none"
    /\ req = NoRequests
    /\ job = NoJob

(***************************************************************************)
(* Review and override store: operations                                   *)
(***************************************************************************)
\* review_state[member_key] as process_all builds it, before overrides
SystemSnapshot(member_key) ==
    LET mine == SelectSeq(FileList, LAMBDA f : Owner(f) = member_key)
    IN [sheets |-> [k \in DOMAIN mine |->
                      BuildSheet(mine[k], sheet_text[mine[k]], FileYear(mine[k]))]]

\* the event a request points at in the persisted snapshot (history only)
RequestTarget(member_key, sheet_file, target, event_index) ==
    IF member_key \notin DOMAIN review THEN [has |-> FALSE, sig |-> <<>>]
    ELSE LET sheets == review[member_key].sheets
             ks == {k \in DOMAIN sheets : sheets[k].source_file = sheet_file}
         IN IF ks = {} THEN [has |-> FALSE, sig |-> <<>>]
            ELSE LET sh   == sheets[CHOOSE k \in ks : TRUE]
                     coll == IF target = "row" THEN sh.rows ELSE sh.invalid_events
                 IN IF event_index + 1 \in DOMAIN coll
                    THEN [has |-> TRUE,
                          sig |-> make_event_signature(coll[event_index + 1])]
                    ELSE [has |-> FALSE, sig |-> <<>>]

\* groups = group_by_ship(rows) raises for a sheet of the batch, which
\* leaves process_all
sheet_raises(file) ==
    group_by_ship_raises(parse_rows(sheet_text[file], FileYear(file)).rows)

\* apply_overrides(member_key, member) raises: the loaded store is not a
\* dict, an entry of a sheet lacks a key, or list.pop fails
reconcile_raises(files, member_key, member) ==
    \/ loaded_not_record(files, member_key)
    \/ apply_overrides_raises(load_overrides(files, member_key), member)

\* process_all's last steps on the freshly built snapshots: the stored
\* overrides applied, the review snapshot written; an exception of
\* apply_overrides leaves process_all before the snapshot is written
ProcessStep(fresh) ==
    IF \E m \in DOMAIN fresh : reconcile_raises(store, m, fresh[m])
    THEN /\ trail' = "aborted"
         /\ last_pass' = <<>>
         /\ UNCHANGED review
    ELSE /\ trail' = "processed"
         /\ review' = [m \in DOMAIN fresh |->
                          apply_overrides(load_overrides(store, m), fresh[m])]
         /\ last_pass' = Concat([k \in DOMAIN MemberList |->
                                   PassLog(load_overrides(store, MemberList[k]),
                                           fresh[MemberList[k]])])

\* process_all: every sheet parsed again, the stored overrides applied, the
\* review snapshot written
ProcessAll ==
    /\ IF \E f \in Files : sheet_raises(f)
       THEN /\ trail' = "aborted"
            /\ last_pass' = <<>>
            /\ UNCHANGED review
       ELSE ProcessStep([m \in {Owner(f) : f \in Files} |-> SystemSnapshot(m)])
    /\ UNCHANGED <<sheet_text, store, clock, ov_target, req, job>>
    /\ UNCHANGED parserVars

\* mutant: an invalid-events index is stored negated, without the offset
StoreIndex_NoOffset(target, event_index) ==
    IF target = "row" THEN event_index ELSE -event_index

\* store_index = event_index if target == "row" else -(event_index + 1)
StoreIndex(target, event_index) ==
    IF target = "row" THEN event_index ELSE -(event_index + 1)

\* POST /api/override for one validated payload
SaveRequest(member_key, sheet_file, event_index, status, reason, target) ==
        LET store_index == StoreIndex(target, event_index)
            path    == override_path(member_key)
            written == save_override(store, member_key, sheet_file, store_index,
                                     status, reason, "manual", clock + 1)
            files   == [store EXCEPT ![path] = RecordFile(written)]
            tgt     == RequestTarget(member_key, sheet_file, target, event_index)
        IN /\ clock < MaxSaves
           \* save_override raising answers 500 with nothing written
           /\ ~loaded_not_record(store, member_key)
           /\ clock' = clock + 1
           /\ store' = files
           /\ ov_target' =
                 {t \in ov_target : ~(t.path = path /\ t.sheet_file = sheet_file
                                      /\ t.event_index = store_index)}
                 \cup {[path |-> path, sheet_file |-> sheet_file,
                        event_index |-> store_index, has |-> tgt.has,
                        sig |-> tgt.sig]}
           /\ IF member_key \in DOMAIN review
              THEN LET ovs == load_overrides(files, member_key)
                   IN /\ IF apply_overrides_raises(ovs, review[member_key])
                         THEN UNCHANGED review /\ last_pass' = <<>>
                         ELSE /\ review' = [review EXCEPT ![member_key] =
                                     apply_overrides(ovs, review[member_key])]
                              /\ last_pass' = PassLog(ovs, review[member_key])
                      /\ trail' = IF trail \in {"cleared", "resaved"}
                                  THEN "resaved" ELSE "saved"
              ELSE UNCHANGED <<review, last_pass, trail>>
           /\ UNCHANGED <<sheet_text, job>>
           /\ UNCHANGED parserVars

\* POST /api/override
api_override_save ==
    \E member_key \in Members, sheet_file \in SheetFileInputs,
       event_index \in IndexInputs, status \in {"valid", "invalid"},
       reason \in ReasonInputs, target \in {"row", "invalid"} :
        /\ SaveRequest(member_key, sheet_file, event_index, status, reason, target)
        /\ UNCHANGED req

\* DELETE /api/override for one validated payload
ClearRequest(member_key) ==
        LET path  == override_path(member_key)
            files == [store EXCEPT ![path] = NoFile]
        IN /\ store' = files
           /\ ov_target' = {t \in ov_target : t.path # path}
           /\ IF member_key \in DOMAIN review
              THEN /\ review' = [review EXCEPT ![member_key] =
                          apply_overrides(load_overrides(files, member_key),
                                          review[member_key])]
                   /\ last_pass' = PassLog(load_overrides(files, member_key),
                                           review[member_key])
                   /\ trail' = "cleared"
              ELSE UNCHANGED <<review, last_pass, trail>>
           /\ UNCHANGED <<sheet_text, clock, job>>
           /\ UNCHANGED parserVars

\* DELETE /api/override
api_override_clear ==
    \E member_key \in Members : ClearRequest(member_key) /\ UNCHANGED req

vars == <<parserVars, overrideVars>>

Next == ProcessAll \/ api_override_save \/ api_override_clear

Spec == Init /\ [][Next]_vars

\* payload event_index values that pass "isinstance(event_index, int)"
RequestIndexInputs == (-MaxIndex)..MaxIndex

\* POST /api/override with any integer event_index, the payload recorded
\* (history only)
api_override_request ==
    \E member_key \in Members, sheet_file \in Files,
       event_index \in RequestIndexInputs, status \in {"valid", "invalid"},
       target \in {"row", "invalid"} :
        /\ SaveRequest(member_key, sheet_file, event_index, status,
                       Reason("", <<>>), target)
        /\ req' = <<[member_key |-> member_key, sheet_file |-> sheet_file,
                     target |-> target, event_index |-> event_index]>>

NextLocator == ProcessAll \/ api_override_request

SpecLocator == Init /\ [][NextLocator]_vars

\* override files left by earlier save_override calls: one entry per
\* (sheet_file, event_index)
SavedStores ==
    {RecordFile(ovs) : ovs \in
        {w \in SeqsUpTo(CompleteEntries, MaxStored) :
            \A i, j \in DOMAIN w :
                i # j => w[i].event_index # w[j].event_index}}

\* POST /api/override over a store that holds overrides already
InitSave ==
    /\ InitParserIdle
    /\ sheet_text \in [Files -> SheetTexts]
    /\ review = <<>>
    /\ store \in [Paths -> SavedStores \cup {NoFile}]
    /\ clock = 0
    /\ ov_target = {}
    /\ last_pass = <<>>
    /\ trail = "none"
    /\ req = NoRequests
    /\ job = NoJob

NextSave == api_override_save

SpecSave == InitSave /\ [][NextSave]_vars

\* member keys of three subjects; the first two differ only in where the
\* space and the comma stand
M1b == <<"R", ",", "A", " ", "B">>

M3 == <<"R", " ", "C", ",", "D">>

KeyInputs == {M1, M1b, M3}

KeyPaths == {override_path(k) : k \in KeyInputs}

\* the override endpoints called for any of the subjects, no review JSON
\* written yet; the payload's member_key recorded (history only)
InitKeys ==
    /\ InitParserIdle
    /\ sheet_text \in [Files -> SheetTexts]
    /\ review = <<>>
    /\ store = [p \in KeyPaths |-> NoFile]
    /\ clock = 0
    /\ ov_target = {}
    /\ last_pass = <<>>
    /\ trail = "none"
    /\ req = NoRequests
    /\ job = NoJob

SubjectSave ==
    \E member_key \in KeyInputs, sheet_file \in SheetFileInputs,
       event_index \in IndexInputs, status \in {"valid", "invalid"},
       reason \in ReasonInputs, target \in {"row", "invalid"} :
        /\ SaveRequest(member_key, sheet_file, event_index, status, reason, target)
        /\ req' = <<[member_key |-> member_key]>>

SubjectClear ==
    \E member_key \in KeyInputs :
        /\ ClearRequest(member_key)
        /\ req' = <<[member_key |-> member_key]>>

NextKeys == SubjectSave \/ SubjectClear

SpecKeys == InitKeys /\ [][NextKeys]_vars

NextParse == ParseRows \/ GroupByShip

SpecParse == InitParse /\ [][NextParse]_vars

NextGroup == GroupByShip

\* parse_rows and group_by_ship over the written forms of dates
InitDates ==
    /\ text \in DateTexts
    /\ year \in FallbackYears
    /\ pc = "start"
    /\ rows = <<>> /\ skipped_duplicates = <<>> /\ skipped_unknown = <<>>
    /\ groups = <<>>
    /\ InitOverridesIdle

SpecDates == InitDates /\ [][NextParse]_vars

\* parse_rows over one-entry sheets of keywords
InitLabel ==
    /\ text \in LabelTexts
    /\ year \in FallbackYears
    /\ pc = "start"
    /\ rows = <<>> /\ skipped_duplicates = <<>> /\ skipped_unknown = <<>>
    /\ groups = <<>>
    /\ InitOverridesIdle

SpecLabel == InitLabel /\ [][NextParse]_vars

\* process_all over override files as they may be found on disk
InitStore ==
    /\ InitParserIdle
    /\ sheet_text \in [Files -> SheetTexts]
    /\ review = <<>>
    /\ store \in [Paths -> StoreFiles]
    /\ clock = 0
    /\ ov_target = {}
    /\ last_pass = <<>>
    /\ trail = "none"
    /\ req = NoRequests
    /\ job = NoJob

NextStore == ProcessAll

SpecStore == InitStore /\ [][NextStore]_vars

\* an override file json.load fails on, or loads as something not a dict
CorruptFiles ==
    {[exists |-> TRUE, shape |-> "unreadable", overrides |-> <<>>],
     [exists |-> TRUE, shape |-> "not_record", overrides |-> <<>>]}

\* process_all and POST /api/override over a corrupt override file
InitCorrupt ==
    /\ InitParserIdle
    /\ sheet_text \in [Files -> SheetTexts]
    /\ review = <<>>
    /\ store \in [Paths -> CorruptFiles]
    /\ clock = 0
    /\ ov_target = {}
    /\ last_pass = <<>>
    /\ trail = "none"
    /\ req = NoRequests
    /\ job = NoJob

NextCorrupt == ProcessAll \/ api_override_save

SpecCorrupt == InitCorrupt /\ [][NextCorrupt]_vars

SpecGroup == InitGroup /\ [][NextGroup]_vars

(***************************************************************************)
(* Two api_override_save requests for two members, step by step            *)
(***************************************************************************)
M2 == <<"R", " ", "C", ",", "D">>

\* request r is for member Subjects[r]
Subjects == <<M1, M2>>

Requests == DOMAIN Subjects

SubjectFile(m) == IF m = M1 THEN "f1" ELSE "f2"

SubjectText(m) == IF m = M1 THEN SheetA ELSE ExampleText

\* the member's record in SEA_PAY_REVIEW.json as process_all wrote it
SubjectSnapshot(m) ==
    [sheets |-> <<BuildSheet(SubjectFile(m), SubjectText(m), FileYear(SubjectFile(m)))>>]

InitConc ==
    /\ InitParserIdle
    /\ sheet_text = [f \in {SubjectFile(Subjects[r]) : r \in Requests} |->
                        IF f = "f1" THEN SheetA ELSE ExampleText]
    /\ review = [m \in {Subjects[r] : r \in Requests} |-> SubjectSnapshot(m)]
    /\ store = [q \in {override_path(Subjects[r]) : r \in Requests} |-> NoFile]
    /\ clock = 0
    /\ ov_target = {}
    /\ last_pass = <<>>
    /\ trail = "processed"
    /\ req = [r \in Requests |->
                [at |-> "start", member_key |-> Subjects[r], state |-> <<>>]]
    /\ job = NoJob

ReqFrame == UNCHANGED <<sheet_text, ov_target, last_pass, trail, job>>
            /\ UNCHANGED parserVars

\* save_override(...) of the request
ReqSave ==
    \E r \in Requests, event_index \in {0, 1}, status \in {"valid", "invalid"},
       target \in {"row", "invalid"} :
        LET member_key  == req[r].member_key
            store_index == IF target = "row" THEN event_index
                           ELSE -(event_index + 1)
            written == save_override(store, member_key, SubjectFile(member_key),
                                     store_index, status, Reason("", <<>>),
                                     "manual", clock + 1)
        IN /\ req[r].at = "start"
           /\ store' = [store EXCEPT ![override_path(member_key)] = RecordFile(written)]
           /\ clock' = clock + 1
           /\ req' = [req EXCEPT ![r].at = "saved"]
           /\ UNCHANGED review
           /\ ReqFrame

\* state = _load_review_state()
ReqLoad ==
    \E r \in Requests :
        /\ req[r].at = "saved"
        /\ req' = [req EXCEPT ![r].state = review,
                              ![r].at = IF req[r].member_key \in DOMAIN review
                                        THEN "loaded" ELSE "done"]
        /\ UNCHANGED <<review, store, clock>>
        /\ ReqFrame

\* state[member_key] = apply_overrides(member_key, state[member_key])
ReqApply ==
    \E r \in Requests :
        LET member_key == req[r].member_key
            member     == req[r].state[member_key]
        IN /\ req[r].at = "loaded"
           /\ req' = IF reconcile_raises(store, member_key, member)
                     THEN [req EXCEPT ![r].at = "done"]
                     ELSE [req EXCEPT
                              ![r].state[member_key] =
                                  apply_overrides(load_overrides(store, member_key),
                                                  member),
                              ![r].at = "applied"]
           /\ UNCHANGED <<review, store, clock>>
           /\ ReqFrame

\* _write_review_state(state)
ReqWrite ==
    \E r \in Requests :
        /\ req[r].at = "applied"
        /\ review' = req[r].state
        /\ req' = [req EXCEPT ![r].at = "done"]
        /\ UNCHANGED <<store, clock>>
        /\ ReqFrame

NextConc == ReqSave \/ ReqLoad \/ ReqApply \/ ReqWrite

SpecConc == InitConc /\ [][NextConc]_vars

(***************************************************************************)
(* process_all step by step, with cooperative cancellation                 *)
(* (consolidate_all_missions = False, the default)                         *)
(***************************************************************************)
\* sorted(files) of the batch
JobFiles == <<"f1", "f2">>

\* a sheet whose only entry carries a date that is no calendar date
BadDateSheet == <<Line("13/45/2025", <<"ALPHA">>)>>

JobTexts == SheetTexts \cup {BadDateSheet}

JobFile == JobFiles[job.idx]

\* the ships of the sheet's periods (ship_map)
ShipCount(file) ==
    Cardinality({r.ship : r \in {parse_rows(sheet_text[file], FileYear(file)).rows[i] :
                    i \in DOMAIN parse_rows(sheet_text[file], FileYear(file)).rows}})

\* review_state of the batch: every sheet under the one member
JobSnapshot ==
    [sheets |-> [k \in DOMAIN JobFiles |->
                    BuildSheet(JobFiles[k], sheet_text[JobFiles[k]],
                               FileYear(JobFiles[k]))]]

InitCancel ==
    /\ InitParserIdle
    /\ sheet_text \in [{JobFiles[k] : k \in DOMAIN JobFiles} -> JobTexts]
    /\ review = <<>>
    /\ store = [q \in Paths |-> NoFile]
    /\ clock = 0
    /\ ov_target = {}
    /\ last_pass = <<>>
    /\ trail = "none"
    /\ req = NoRequests
    /\ job = [at |-> "top", idx |-> 1, ships_done |-> 0, cancel |-> FALSE,
              stage |-> [f \in {JobFiles[k] : k \in DOMAIN JobFiles} |-> "none"]]

JobFrame == UNCHANGED <<sheet_text, store, clock, ov_target, req>>
            /\ UNCHANGED parserVars

JobRunning == job.at \in {"top", "parsed", "recorded", "marked", "pg13", "after_loop"}

\* the sheet is complete: the loop goes to the next file or ends
NextSheet(j) ==
    [j EXCEPT !.stage[JobFiles[j.idx]] = "complete",
              !.ships_done = 0,
              !.idx = IF j.idx < Len(JobFiles) THEN j.idx + 1 ELSE j.idx,
              !.at = IF j.idx < Len(JobFiles) THEN "top" ELSE "after_loop"]

\* the user cancels (set_cancelled), at any moment of the run
Cancel ==
    /\ JobRunning /\ ~job.cancel
    /\ job' = [job EXCEPT !.cancel = TRUE]
    /\ UNCHANGED <<review, last_pass, trail>>
    /\ JobFrame

\* loop head: cancel check, OCR, name, parse_rows
JobSheetStart ==
    /\ job.at = "top"
    /\ job' = IF job.cancel THEN [job EXCEPT !.at = "cancelled"]
              ELSE [job EXCEPT !.stage[JobFile] = "classified", !.at = "parsed"]
    /\ UNCHANGED <<review, last_pass, trail>>
    /\ JobFrame

\* cancel check, group_by_ship, the sheet's review-state and summary records
JobValidate ==
    /\ job.at = "parsed"
    /\ job' = IF job.cancel THEN [job EXCEPT !.at = "cancelled"]
              ELSE IF sheet_raises(JobFile) THEN [job EXCEPT !.at = "raised"]
              ELSE [job EXCEPT !.stage[JobFile] = "recorded", !.at = "recorded"]
    /\ UNCHANGED <<review, last_pass, trail>>
    /\ JobFrame

\* cancel check, mark_sheet_with_strikeouts
JobMarkToris ==
    /\ job.at = "recorded"
    /\ job' = IF job.cancel THEN [job EXCEPT !.at = "cancelled"]
              ELSE [job EXCEPT !.stage[JobFile] = "marked", !.at = "marked"]
    /\ UNCHANGED <<review, last_pass, trail>>
    /\ JobFrame

\* cancel check, _apply_toris_certifier; a sheet without periods is complete
JobCertify ==
    /\ job.at = "marked"
    /\ job' = IF job.cancel THEN [job EXCEPT !.at = "cancelled"]
              ELSE IF ShipCount(JobFile) = 0 THEN NextSheet(job)
              ELSE [job EXCEPT !.stage[JobFile] = "certified", !.at = "pg13"]
    /\ UNCHANGED <<review, last_pass, trail>>
    /\ JobFrame

\* cancel check, make_pdf_for_ship for the next ship of the sheet
JobPg13 ==
    /\ job.at = "pg13"
    /\ job' = IF job.cancel THEN [job EXCEPT !.at = "cancelled"]
              ELSE IF job.ships_done + 1 = ShipCount(JobFile) THEN NextSheet(job)
              ELSE [job EXCEPT !.ships_done = @ + 1]
    /\ UNCHANGED <<review, last_pass, trail>>
    /\ JobFrame

\* after the loop: summary files, apply_overrides, the review JSON
JobFinish ==
    /\ job.at = "after_loop"
    /\ job' = [job EXCEPT !.at = "finished"]
    /\ ProcessStep([m \in Members |-> JobSnapshot])
    /\ JobFrame

NextCancel ==
    \/ Cancel \/ JobSheetStart \/ JobValidate \/ JobMarkToris
    \/ JobCertify \/ JobPg13 \/ JobFinish

SpecCancel == InitCancel /\ [][NextCancel]_vars

(***************************************************************************)
(* process_all: the outputs of one run                                     *)
(***************************************************************************)
NoSummary == [periods |-> <<>>, skipped_dupe |-> <<>>, skipped_unknown |-> <<>>]

\* sd["periods"] entries of one sheet's groups
SheetPeriods(file, gs) ==
    [k \in DOMAIN gs |->
        [ship |-> gs[k].ship, start |-> gs[k].start, end |-> gs[k].end,
         sheet_file |-> file]]

\* what one sheet adds to sd["periods"], sd["skipped_dupe"] and
\* sd["skipped_unknown"]
SheetSummary(file, p) ==
    [periods |-> SheetPeriods(file, group_by_ship(p.rows)),
     skipped_dupe |-> p.skipped_duplicates,
     skipped_unknown |-> p.skipped_unknown]

\* the sheets' contributions appended in the order of the files
JoinSummaries(per) ==
    [periods |-> Concat([k \in DOMAIN per |-> per[k].periods]),
     skipped_dupe |-> Concat([k \in DOMAIN per |-> per[k].skipped_dupe]),
     skipped_unknown |-> Concat([k \in DOMAIN per |-> per[k].skipped_unknown])]

MemberFiles(member_key) == SelectSeq(FileList, LAMBDA f : Owner(f) = member_key)

\* summary_data[member_key] after the loop over the files
SummaryData(member_key) ==
    JoinSummaries([k \in DOMAIN MemberFiles(member_key) |->
        SheetSummary(MemberFiles(member_key)[k],
                     parse_rows(sheet_text[MemberFiles(member_key)[k]],
                                FileYear(MemberFiles(member_key)[k])))])

\* the job after the loop: the summary records, and the PG-13 forms made
\* from the same periods
Summarised(j, sd) ==
    [j EXCEPT !.at = "summarised",
              !.summary_data = sd,
              !.pg13 = [m \in DOMAIN sd |-> sd[m].periods]]

\* the override files of a run: entries as save_override wrote them
ReportStores ==
    {RecordFile(ovs) : ovs \in SeqsUpTo(CompleteEntries, MaxStored)}

InitReport ==
    /\ InitParserIdle
    /\ sheet_text \in [Files -> SheetTexts]
    /\ review = <<>>
    /\ store \in [Paths -> ReportStores]
    /\ clock = 0
    /\ ov_target = {}
    /\ last_pass = <<>>
    /\ trail = "none"
    /\ req = NoRequests
    /\ job = [at |-> "loop",
              summary_data |-> [m \in Members |-> NoSummary],
              pg13 |-> [m \in Members |-> <<>>],
              written |-> [m \in Members |-> NoSummary]]

\* the loop over the files: parse_rows, group_by_ship, the summary records
\* and the PG-13 forms of each sheet's periods
ReportSheets ==
    /\ job.at = "loop"
    /\ job' = IF \E f \in Files : sheet_raises(f)
              THEN [job EXCEPT !.at = "raised"]
              ELSE Summarised(job, [m \in Members |-> SummaryData(m)])
    /\ UNCHANGED <<review, last_pass, trail>>
    /\ JobFrame

\* write_summary_files(summary_data)
ReportWriteSummary ==
    /\ job.at = "summarised"
    /\ job' = [job EXCEPT !.at = "written", !.written = job.summary_data]
    /\ UNCHANGED <<review, last_pass, trail>>
    /\ JobFrame

\* apply_overrides for every member, then the review JSON
ReportReconcile ==
    /\ job.at = "written"
    /\ job' = [job EXCEPT !.at = "finished"]
    /\ ProcessStep([m \in Members |-> SystemSnapshot(m)])
    /\ JobFrame

NextReport == ReportSheets \/ ReportWriteSummary \/ ReportReconcile

SpecReport == InitReport /\ [][NextReport]_vars

(***************************************************************************)
(* Override claims (checked under Spec)                                    *)
(***************************************************************************)
SeqRange(xs) == {xs[i] : i \in DOMAIN xs}

\* the stored overrides of a member, and their replay on a snapshot
Stored(m) == load_overrides(store, m)

Replayed(m) == apply_overrides(Stored(m), SystemSnapshot(m))

\* which signatures sit in the valid rows and which in the invalid events,
\* sheet by sheet
Partition(member) ==
    [k \in DOMAIN member.sheets |->
        [source_file |-> member.sheets[k].source_file,
         valid   |-> {make_event_signature(e) : e \in SeqRange(member.sheets[k].rows)},
         invalid |-> {make_event_signature(e) :
                         e \in SeqRange(member.sheets[k].invalid_events)}]]

\* the collection and the status of every event, sheet by sheet
Classification(member) ==
    [k \in DOMAIN member.sheets |->
        [source_file |-> member.sheets[k].source_file,
         valid   |-> {<<make_event_signature(e), e.status>> :
                         e \in SeqRange(member.sheets[k].rows)},
         invalid |-> {<<make_event_signature(e), e.status>> :
                         e \in SeqRange(member.sheets[k].invalid_events)}]]

\* C1: reconciling an already-reconciled snapshot with the same stored
\* overrides gives the reconciled snapshot again, event for event, in the
\* same order and with the same fields.
C1_ReconcileIdempotent ==
    \A m \in DOMAIN review :
        LET once == Replayed(m)
        IN (/\ ~apply_overrides_raises(Stored(m), SystemSnapshot(m))
            /\ ~apply_overrides_raises(Stored(m), once))
           => apply_overrides(Stored(m), once) = once

\* C2: after overrides were saved through api_override_save, the persisted
\* review snapshot has the partition into valid rows and invalid events that
\* process_all gives by building the system snapshot from the same sheet text
\* and replaying the stored overrides.
C2_SurvivesRecomputation ==
    trail = "saved" =>
        \A m \in DOMAIN review :
            ~apply_overrides_raises(Stored(m), SystemSnapshot(m))
                => Partition(review[m]) = Partition(Replayed(m))

\* C3: an override is applied to the event it was created for, found by its
\* signature in either collection, and never to another event standing at
\* the recorded index.
C3_ContentAddressed ==
    \A i \in DOMAIN last_pass :
        \A t \in ov_target :
            (/\ t.sheet_file = last_pass[i].sheet_file
             /\ t.event_index = last_pass[i].event_index
             /\ t.has
             /\ last_pass[i].found)
            => last_pass[i].sig_before = t.sig

\* C4: after api_override_clear the member's override file is gone and the
\* reconciled review snapshot has every event in the collection and with the
\* status the parser gave it.
C4_ClearRestores ==
    trail = "cleared" =>
        \A m \in DOMAIN review :
            /\ ~store[override_path(m)].exists
            /\ Classification(apply_overrides(Stored(m), review[m]))
                 = Classification(SystemSnapshot(m))

\* C5: every event a reconciliation pass moves between valid rows and
\* invalid events, in either direction, has the same signature after the
\* move as before it.
C5_SignatureStable ==
    \A i \in DOMAIN last_pass :
        last_pass[i].moved => last_pass[i].sig_after = last_pass[i].sig_before

\* one pass that moved a valid row to the invalid events and an invalid
\* event to the valid rows, both present in the written snapshot
C5_Witness ==
    /\ \E i, j \in DOMAIN last_pass :
          /\ last_pass[i].moved /\ last_pass[i].location = "valid"
          /\ last_pass[j].moved /\ last_pass[j].location = "invalid"
    /\ \E m \in DOMAIN review : \E k \in DOMAIN review[m].sheets :
          /\ \E e \in SeqRange(review[m].sheets[k].invalid_events) :
                e.source = "override" /\ e.status = "invalid"
          /\ \E e \in SeqRange(review[m].sheets[k].rows) :
                e.override.status = "valid" /\ e.category # Absent

(***************************************************************************)
(* Classification claims (checked under SpecParse)                         *)
(***************************************************************************)
Parsed == pc \in {"parsed", "grouped", "raised"}

\* the classified entries of one normalized date of the parsed text
DateEntries(d) == ClassifyAll(EntriesOf(Entries(text, year), d))

TextDates == {e.date : e \in {Entries(text, year)[i] : i \in DOMAIN Entries(text, year)}}

RecordsOn(recs, d) == {i \in DOMAIN recs : recs[i].date = d}

RecordsAt(recs, d, occ) ==
    {i \in DOMAIN recs : recs[i].date = d /\ recs[i].occ_idx = occ}

HasInport(ces) == \E i \in DOMAIN ces : ces[i].is_inport

ValidOccs(ces) == {i \in DOMAIN ces : ces[i].kind = "valid"}

Aug(d) == [mm |-> 8, dd |-> d, y |-> 2025, yl |-> 4]

\* C6: for the three-line example sheet, the valid rows are exactly
\* (8/1, CHAFEE) and (8/2, CHAFEE), there is exactly one invalid record, for
\* 8/3 with a reason naming SBTT, and the only period is CHAFEE 8/1..8/2.
C6_EndToEndExample ==
    (text = ExampleText /\ pc = "grouped") =>
        /\ [i \in DOMAIN rows |-> <<rows[i].date, rows[i].ship>>]
             = <<(<<Aug(1), <<"CHAFEE">>>>), (<<Aug(2), <<"CHAFEE">>>>)>>
        /\ skipped_duplicates = <<>>
        /\ Len(skipped_unknown) = 1
        /\ skipped_unknown[1].date = Aug(3)
        /\ Contains(skipped_unknown[1].reason.label, <<"SBTT">>)
        /\ groups = <<[ship |-> <<"CHAFEE">>, start |-> Strptime(Aug(1)),
                       end |-> Strptime(Aug(2))]>>

\* C7: a date with at least one in-port entry has no valid row and no
\* duplicate record, and each of its entries (in-port, otherwise valid, or
\* unknown) has exactly one invalid record.
C7_InportDominance ==
    Parsed =>
        \A d \in TextDates :
            LET ces == DateEntries(d)
            IN HasInport(ces) =>
                /\ RecordsOn(rows, d) = {}
                /\ RecordsOn(skipped_duplicates, d) = {}
                /\ Cardinality(RecordsOn(skipped_unknown, d)) = Len(ces)
                /\ \A i \in DOMAIN ces :
                       Cardinality(RecordsAt(skipped_unknown, d, i)) = 1

\* one SBTT entry and one otherwise-valid ship entry on one date: no valid
\* row, two invalid records
C7_Witness ==
    /\ pc = "parsed"
    /\ \E d \in TextDates :
          LET ces == DateEntries(d)
          IN /\ Len(ces) = 2
             /\ \E i, j \in DOMAIN ces :
                   /\ ces[i].is_inport /\ ces[i].raw = <<"SBTT">>
                   /\ ces[j].kind = "valid"
             /\ RecordsOn(rows, d) = {}
             /\ Cardinality(RecordsOn(skipped_unknown, d)) = 2

MinOf(S) == CHOOSE x \in S : \A z \in S : x <= z

\* C8: on a date without in-port entries whose valid entries name two or
\* more ships, the valid row is the lowest-occurrence mission-tagged valid
\* entry, or the lowest-occurrence valid entry when none is tagged; every
\* other valid entry is a duplicate.  Entries "ALPHA" and "BRAVO (M1)" keep
\* BRAVO in either order.
C8_MissionTieBreak ==
    Parsed =>
        \A d \in TextDates :
            LET ces     == DateEntries(d)
                vo      == ValidOccs(ces)
                tagged  == {i \in vo : \E k \in DOMAIN ces[i].upper :
                               ces[i].upper[k] \in {"M1", "(M1)", "M-1", "M2", "M-2"}}
                keep    == IF tagged # {} THEN MinOf(tagged) ELSE MinOf(vo)
            IN (~HasInport(ces) /\ Cardinality({ces[i].ship : i \in vo}) >= 2) =>
                /\ Cardinality(RecordsOn(rows, d)) = 1
                /\ \A r \in RecordsOn(rows, d) :
                       rows[r].occ_idx = keep /\ rows[r].ship = ces[keep].ship
                /\ \A i \in vo \ {keep} :
                       Cardinality(RecordsAt(skipped_duplicates, d, i)) = 1
                /\ RecordsAt(skipped_duplicates, d, keep) = {}
                /\ ({ces[i].raw : i \in DOMAIN ces}
                        = {<<"ALPHA">>, <<"BRAVO", "(M1)">>} /\ Len(ces) = 2
                    => \A r \in RecordsOn(rows, d) : rows[r].ship = <<"BRAVO">>)

\* entry "ALPHA" first, entry "BRAVO (M1)" second: BRAVO is kept
C8_Witness ==
    /\ pc = "parsed"
    /\ \E d \in TextDates :
          LET ces == DateEntries(d)
          IN /\ Len(ces) = 2
             /\ ces[1].raw = <<"ALPHA">> /\ ces[2].raw = <<"BRAVO", "(M1)">>
             /\ \E r \in RecordsOn(rows, d) :
                   rows[r].ship = <<"BRAVO">> /\ rows[r].occ_idx = 2
             /\ \E q \in RecordsOn(skipped_duplicates, d) :
                   skipped_duplicates[q].ship = <<"ALPHA">>

\* C9: on a date without in-port entries whose valid entries all name one
\* ship, the lowest-occurrence valid entry is the date's single valid row,
\* every other valid entry is a duplicate record with reason "Duplicate
\* entry for date", and every unknown entry is an invalid record.
C9_DuplicateTieBreak ==
    Parsed =>
        \A d \in TextDates :
            LET ces == DateEntries(d)
                vo  == ValidOccs(ces)
            IN (~HasInport(ces) /\ Cardinality({ces[i].ship : i \in vo}) = 1) =>
                /\ Cardinality(RecordsOn(rows, d)) = 1
                /\ \A r \in RecordsOn(rows, d) :
                       rows[r].occ_idx = MinOf(vo) /\ rows[r].ship = ces[MinOf(vo)].ship
                /\ RecordsAt(skipped_duplicates, d, MinOf(vo)) = {}
                /\ \A i \in vo \ {MinOf(vo)} :
                       /\ Cardinality(RecordsAt(skipped_duplicates, d, i)) = 1
                       /\ \A q \in RecordsAt(skipped_duplicates, d, i) :
                              /\ skipped_duplicates[q].reason.base = "Duplicate entry for date"
                              /\ skipped_duplicates[q].ship = ces[i].ship
                /\ \A i \in DOMAIN ces :
                       ces[i].kind = "unknown" =>
                           /\ Cardinality(RecordsAt(skipped_unknown, d, i)) = 1
                           /\ RecordsAt(skipped_duplicates, d, i) = {}
                /\ \A i \in vo : RecordsAt(skipped_unknown, d, i) = {}

\* two same-ship entries and an unknown entry on one date
C9_Witness ==
    /\ pc = "parsed"
    /\ \E d \in TextDates :
          LET ces == DateEntries(d)
          IN /\ Len(ces) = 3
             /\ ces[1].kind = "valid" /\ ces[2].kind = "valid"
             /\ ces[1].ship = ces[2].ship
             /\ ces[3].kind = "unknown"
             /\ \E r \in RecordsOn(rows, d) : rows[r].occ_idx = 1
             /\ RecordsAt(skipped_duplicates, d, 2) # {}
             /\ RecordsAt(skipped_unknown, d, 3) # {}

(***************************************************************************)
(* Period claims (checked under SpecGroup)                                 *)
(***************************************************************************)
InputShips == {rows[i].ship : i \in DOMAIN rows}

InputDays(ship) ==
    {Strptime(rows[i].date) : i \in {j \in DOMAIN rows : rows[j].ship = ship}}

PeriodsOf(ship) == {k \in DOMAIN groups : groups[k].ship = ship}

CoveredDays(ship) ==
    UNION {groups[k].start .. groups[k].end : k \in PeriodsOf(ship)}

\* C10: when every input row carries a calendar date, group_by_ship returns,
\* and for every ship the days covered by its periods (start..end inclusive)
\* are exactly the days of its input rows, each input day lying in exactly
\* one period of its ship; no period is emitted for a ship without rows.
C10_CoverageLaw ==
    (pc \in {"grouped", "raised"} /\ \A i \in DOMAIN rows : StrptimeOk(rows[i].date)) =>
        /\ pc = "grouped"
        /\ {groups[k].ship : k \in DOMAIN groups} = InputShips
        /\ \A ship \in InputShips :
              /\ CoveredDays(ship) = InputDays(ship)
              /\ \A day \in InputDays(ship) :
                    Cardinality({k \in PeriodsOf(ship) :
                        groups[k].start <= day /\ day <= groups[k].end}) = 1

\* one ship with a two-day run, a gap and a further period, from rows given
\* out of order
C10_Witness ==
    /\ pc = "grouped"
    /\ \E ship \in InputShips :
          /\ Cardinality(PeriodsOf(ship)) = 2
          /\ \E k \in PeriodsOf(ship) : groups[k].start < groups[k].end
          /\ \E i, j \in DOMAIN rows :
                i < j /\ rows[i].ship = ship /\ rows[j].ship = ship
                /\ Strptime(rows[j].date) < Strptime(rows[i].date)

\* the periods of one ship, in the order they were emitted
PeriodSeq(ship) ==
    LET ks == Sorted(PeriodsOf(ship))
    IN [n \in DOMAIN ks |-> <<groups[ks[n]].start, groups[ks[n]].end>>]

\* C11: the periods of one ship are maximal runs of input days with
\* start <= end, and two periods of one ship are neither overlapping nor
\* adjacent: the later one starts at least two days after the earlier one
\* ends.  Days 8/1, 8/2, 8/4 of one ship give exactly 8/1-8/2 and 8/4-8/4,
\* whatever the order of the rows and however often a date is repeated.
C11_PeriodSeparation ==
    pc = "grouped" =>
        \A ship \in InputShips :
            /\ \A k \in PeriodsOf(ship) :
                  /\ groups[k].start <= groups[k].end
                  /\ groups[k].start .. groups[k].end \subseteq InputDays(ship)
                  /\ groups[k].start - 1 \notin InputDays(ship)
                  /\ groups[k].end + 1 \notin InputDays(ship)
            /\ \A k, l \in PeriodsOf(ship) :
                  k < l => groups[k].end + 2 <= groups[l].start
            /\ InputDays(ship) = {Strptime(Aug(1)), Strptime(Aug(2)), Strptime(Aug(4))}
                  => PeriodSeq(ship) = <<(<<Strptime(Aug(1)), Strptime(Aug(2))>>),
                                         (<<Strptime(Aug(4)), Strptime(Aug(4))>>)>>

\* rows 8/4, 8/1, 8/2 of one ship with a date repeated, given out of order
C11_Witness ==
    /\ pc = "grouped"
    /\ \E ship \in InputShips :
          /\ InputDays(ship) = {Strptime(Aug(1)), Strptime(Aug(2)), Strptime(Aug(4))}
          /\ Len(rows) = 4
          /\ \A i \in DOMAIN rows : rows[i].ship = ship
          /\ rows[1].date = Aug(4)
          /\ \E i, j \in DOMAIN rows : i # j /\ rows[i].date = rows[j].date
          /\ PeriodSeq(ship) = <<(<<Strptime(Aug(1)), Strptime(Aug(2))>>),
                                 (<<Strptime(Aug(4)), Strptime(Aug(4))>>)>>

(***************************************************************************)
(* Override store claims (checked under SpecStore)                         *)
(***************************************************************************)
EntryKeys ==
    {"sheet_file", "event_index", "override_status", "override_reason",
     "source", "timestamp"}

\* the member's override file is missing, unreadable, not a record, or
\* holds an entry that lacks a key
StoreDegraded(m) ==
    LET f == store[override_path(m)]
    IN \/ ~f.exists
       \/ f.shape \in {"unreadable", "not_record"}
       \/ \E i \in DOMAIN f.overrides : DOMAIN f.overrides[i] # EntryKeys

\* C12: with a missing, unreadable or malformed override file of a member,
\* apply_overrides raises nothing and returns the snapshot unchanged, and
\* process_all is not aborted.
C12_StoreDegradation ==
    \A m \in Members :
        StoreDegraded(m) =>
            /\ trail # "aborted"
            /\ trail = "processed" => review[m] = SystemSnapshot(m)

(***************************************************************************)
(* Date claims (checked under SpecDates)                                   *)
(***************************************************************************)
\* C13: for every sheet text parse_rows and group_by_ship return without
\* raising, and an entry whose month/day/year is no calendar date is
\* reported in an invalid record instead of stopping the run.
C13_NoAbortOnBadInput ==
    /\ pc # "raised"
    /\ pc = "grouped" =>
          \A i \in DOMAIN Entries(text, year) :
              ~StrptimeOk(Entries(text, year)[i].date) =>
                  \E q \in DOMAIN skipped_unknown :
                      skipped_unknown[q].date = Entries(text, year)[i].date

(***************************************************************************)
(* Concurrency claims (checked under SpecConc)                             *)
(***************************************************************************)
\* C14: when two api_override_save requests for two different members have
\* both returned, however their load, apply and write steps interleaved,
\* the persisted review snapshot holds each member's record with that
\* member's stored override applied.
C14_CrossSubjectIndependence ==
    (\A r \in Requests : req[r].at = "done") =>
        \A r \in Requests :
            review[Subjects[r]] =
                apply_overrides(load_overrides(store, Subjects[r]),
                                SubjectSnapshot(Subjects[r]))

(***************************************************************************)
(* Cancellation claims (checked under SpecCancel)                          *)
(***************************************************************************)
\* C15: when process_all has observed a cancellation, every sheet is either
\* not begun or complete in its classification, its review-state record and
\* its outputs.
C15_CancelBetweenSheets ==
    job.at = "cancelled" =>
        \A f \in DOMAIN job.stage : job.stage[f] \in {"none", "complete"}

(***************************************************************************)
(* Classification claims, continued (checked under SpecParse)              *)
(***************************************************************************)
\* the in-port labels seen among the entries of one date
DateLabels(ces) == {ces[i].inport_label : i \in {j \in DOMAIN ces : ces[j].is_inport}}

RuleABase(ce) ==
    IF ce.is_inport THEN "In-Port Shore Side Event"
    ELSE IF ce.kind = "unknown" THEN "Unknown or Non-Platform Event"
    ELSE "Suppressed by In-Port Shore Side Event"

\* C16: on a date with an in-port entry, with L the longest in-port label of
\* the date, every entry's invalid record carries its rule A reason with
\* that same L: "In-Port Shore Side Event (L)" for an in-port entry,
\* "Suppressed by In-Port Shore Side Event (L)" for an otherwise valid one,
\* "Unknown or Non-Platform Event (L)" for an unknown one.
C16_RuleAReasons ==
    Parsed =>
        \A d \in TextDates :
            LET ces == DateEntries(d)
            IN HasInport(ces) =>
                \E L \in DateLabels(ces) :
                    /\ \A l \in DateLabels(ces) : StrLen(l) <= StrLen(L)
                    /\ \A i \in DOMAIN ces :
                          \A q \in RecordsAt(skipped_unknown, d, i) :
                              skipped_unknown[q].reason = Reason(RuleABase(ces[i]), L)

(***************************************************************************)
(* Classifier claims (checked under SpecLabel: one entry per sheet)        *)
(***************************************************************************)
\* the uppercased raw text of the sheet's only entry
EntryUpper == UpperSeq(text[1].toks)

Has(kw) == Contains(EntryUpper, kw)

ShipHit == match_ship(text[1].toks)

\* the label each keyword rule that matches would produce
RuleLabels ==
    (IF Has(<<"ASW", "MITE">>) THEN {<<"ASW", "MITE">>} ELSE {})
    \cup (IF Has(<<"ASTAC", "MITE">>) THEN {<<"ASTAC", "MITE">>} ELSE {})
    \cup (IF Has(<<"SBTT">>)
          THEN {IF ShipHit # NoneVal THEN ShipHit \o <<"SBTT">> ELSE <<"SBTT">>}
          ELSE {})
    \cup (IF Has(<<"MITE">>) THEN {<<"MITE">>} ELSE {})

\* the entry came out as an in-port record with this label
InportWith(label) ==
    /\ rows = <<>> /\ skipped_duplicates = <<>>
    /\ Len(skipped_unknown) = 1
    /\ skipped_unknown[1].reason = Reason("In-Port Shore Side Event", label)
    /\ skipped_unknown[1].ship = label

\* C17: when more than one keyword rule matches an entry, its label is the
\* longest of the labels the matching rules would produce.
C17_LongestLabelWins ==
    (Parsed /\ Cardinality(RuleLabels) > 1) =>
        \E L \in RuleLabels :
            /\ \A l \in RuleLabels : StrLen(l) <= StrLen(L)
            /\ InportWith(L)

\* C18: an entry is classified by the first rule that matches, in the order
\* ASW MITE, ASTAC MITE, SBTT (with the ship when the vessel lookup hits),
\* MITE, then vessel lookup: a hit is a valid row, a miss an unknown record;
\* a labelled entry is neither.
C18_KeywordPriority ==
    Parsed =>
        IF Has(<<"ASW", "MITE">>) THEN InportWith(<<"ASW", "MITE">>)
        ELSE IF Has(<<"ASTAC", "MITE">>) THEN InportWith(<<"ASTAC", "MITE">>)
        ELSE IF Has(<<"SBTT">>) THEN
            InportWith(IF ShipHit # NoneVal THEN ShipHit \o <<"SBTT">> ELSE <<"SBTT">>)
        ELSE IF Has(<<"MITE">>) THEN InportWith(<<"MITE">>)
        ELSE IF ShipHit # NoneVal
        THEN /\ Len(rows) = 1 /\ rows[1].ship = ShipHit
             /\ skipped_unknown = <<>> /\ skipped_duplicates = <<>>
        ELSE /\ rows = <<>> /\ skipped_duplicates = <<>>
             /\ Len(skipped_unknown) = 1
             /\ skipped_unknown[1].reason
                    = Reason("Unknown or Non-Platform Event", <<>>)

\* an entry naming a ship with ASTAC MITE and SBTT: the ASTAC MITE rule
\* decides, before the SBTT rule
C18_Witness ==
    /\ pc = "parsed"
    /\ Has(<<"ASTAC", "MITE">>) /\ Has(<<"SBTT">>) /\ ShipHit # NoneVal
    /\ ~Has(<<"ASW", "MITE">>)
    /\ InportWith(<<"ASTAC", "MITE">>)

(***************************************************************************)
(* Date claims (checked under SpecDates)                                   *)
(***************************************************************************)
\* C19: no two valid rows of one parse_rows output have the same normalized
\* date, whatever the written forms of the date and wherever its lines are.
C19_OneRowPerDate ==
    Parsed =>
        \A i, j \in DOMAIN rows :
            i # j => rows[i].date # rows[j].date

\* one calendar date written in two forms on non-adjacent lines, each naming
\* a ship: one valid row and one duplicate record
C19_Witness ==
    /\ pc = "parsed"
    /\ \E i, j \in DOMAIN text :
          /\ j > i + 1
          /\ text[i].dt # NoDate /\ text[j].dt # NoDate
          /\ text[i].dt # text[j].dt
          /\ NormDate(text[i].dt, year) = NormDate(text[j].dt, year)
          /\ Cardinality({r \in DOMAIN rows :
                             rows[r].date = NormDate(text[i].dt, year)}) = 1
          /\ \E q \in DOMAIN skipped_duplicates :
                skipped_duplicates[q].date = NormDate(text[i].dt, year)

(***************************************************************************)
(* Override claims, continued (checked under Spec)                         *)
(***************************************************************************)
Sigs(xs) == [i \in DOMAIN xs |-> make_event_signature(xs[i])]

\* xs from position i on, without the positions of T
RECURSIVE Without(_, _, _)
Without(xs, T, i) ==
    IF i > Len(xs) THEN <<>>
    ELSE (IF i \in T THEN <<>> ELSE <<xs[i]>>) \o Without(xs, T, i + 1)

\* the valid rows an override of the pass sends to the invalid events
TargetedRows(sheet, ovs) ==
    {i \in DOMAIN sheet.rows :
        \E k \in DOMAIN ovs :
            /\ ovs[k].sheet_file = sheet.source_file
            /\ ovs[k].event_index = i - 1
            /\ ovs[k].override_status = "invalid"}

\* the invalid events an override of the pass sends to the valid rows
TargetedInvalid(sheet, ovs) ==
    {i \in DOMAIN sheet.invalid_events :
        \E k \in DOMAIN ovs :
            /\ ovs[k].sheet_file = sheet.source_file
            /\ ovs[k].event_index = -i
            /\ ovs[k].override_status = "valid"}

\* out is in with exactly the targeted events relocated: the others first,
\* in their order, then the arrivals
Relocated(kept, arrivals, out) ==
    /\ Len(out) = Len(kept) + Cardinality(arrivals)
    /\ SubSeq(out, 1, Len(kept)) = kept
    /\ {out[i] : i \in (Len(kept) + 1)..Len(out)} = arrivals

\* several overrides of the pass relocate events of the sheet
SeveralRelocations(in, ovs) ==
    Cardinality(TargetedRows(in, ovs)) + Cardinality(TargetedInvalid(in, ovs)) >= 2

RelocationSafe(in, out, ovs) ==
       /\ Relocated(Without(Sigs(in.rows), TargetedRows(in, ovs), 1),
                    {make_event_signature(in.invalid_events[i]) :
                        i \in TargetedInvalid(in, ovs)},
                    Sigs(out.rows))
       /\ Relocated(Without(Sigs(in.invalid_events), TargetedInvalid(in, ovs), 1),
                    {make_event_signature(in.rows[i]) :
                        i \in TargetedRows(in, ovs)},
                    Sigs(out.invalid_events))
       /\ SeqRange(Sigs(out.rows)) \cap SeqRange(Sigs(out.invalid_events)) = {}

\* the step is process_all reaching its apply_overrides pass
IsProcessPass ==
    /\ trail' \in {"processed", "aborted"}
    /\ clock' = clock /\ store' = store

\* the members whose snapshot the step's apply_overrides pass worked on
PassMembers ==
    {m \in Members :
        \/ IsProcessPass
        \/ (m \in DOMAIN review
            /\ store'[override_path(m)] # store[override_path(m)])}

\* the pass returned and its result was written
PassWritten(m) == m \in DOMAIN review' /\ trail' # "aborted"

\* the snapshot the pass started from: freshly built in process_all, the
\* persisted one in the override endpoints
PassInput(m) == IF IsProcessPass THEN SystemSnapshot(m) ELSE review[m]

\* C20: when the overrides of one apply_overrides pass relocate several
\* events of one sheet, exactly the targeted events change collection, every
\* other event stays in its collection in its relative order, and no event
\* is lost, duplicated or in both collections afterwards.
C20_MultiRelocationSafe ==
    [][\A m \in PassMembers :
          \A k \in DOMAIN PassInput(m).sheets :
              SeveralRelocations(PassInput(m).sheets[k], load_overrides(store', m))
              => /\ PassWritten(m)
                 /\ RelocationSafe(PassInput(m).sheets[k], review'[m].sheets[k],
                                   load_overrides(store', m))]_vars

\* a pass that moved one event out of the valid rows and one into them,
\* in the same sheet
C20_Witness ==
    \E a, b \in DOMAIN last_pass :
        /\ last_pass[a].sheet_file = last_pass[b].sheet_file
        /\ last_pass[a].moved /\ last_pass[a].location = "valid"
        /\ last_pass[b].moved /\ last_pass[b].location = "invalid"

\* the override addresses a position past the end of the sheet's collection
OutOfRange(ov, sheet) ==
    /\ ov.sheet_file = sheet.source_file
    /\ \/ ov.event_index >= Len(sheet.rows)
       \/ (ov.event_index < 0
           /\ (-ov.event_index - 1) >= Len(sheet.invalid_events))

Unresolved(ovs, member) ==
    {k \in DOMAIN ovs :
        \E j \in DOMAIN member.sheets : OutOfRange(ovs[k], member.sheets[j])}

\* the store without its unresolved overrides
Resolvable(ovs, member) == Without(ovs, Unresolved(ovs, member), 1)

InPlaceOn(ov, sheet) ==
    /\ ov.sheet_file = sheet.source_file
    /\ \/ (ov.event_index >= 0 /\ ov.event_index < Len(sheet.rows)
           /\ ov.override_status = "valid")
       \/ (ov.event_index < 0
           /\ (-ov.event_index - 1) < Len(sheet.invalid_events)
           /\ ov.override_status = "invalid")

InPlace(ovs, member) ==
    {k \in DOMAIN ovs :
        \E j \in DOMAIN member.sheets : InPlaceOn(ovs[k], member.sheets[j])}

\* the fields an update in place may write
UpdateFields == {"override", "final_classification", "status", "status_reason"}

\* the events of a collection, position by position, without the fields of
\* an update in place
Stripped(xs) ==
    [i \in DOMAIN xs |-> [f \in DOMAIN xs[i] \ UpdateFields |-> xs[i][f]]]

StrippedSheets(member) ==
    [k \in DOMAIN member.sheets |->
        [rows |-> Stripped(member.sheets[k].rows),
         invalid_events |-> Stripped(member.sheets[k].invalid_events)]]

\* the snapshot of the pass without the overrides that update in place
WithoutInPlace(ovs, member) ==
    apply_overrides(Without(ovs, InPlace(ovs, member), 1), member)

\* C25: an override whose target event is already in the collection its
\* status asks for changes only the override, final_classification and
\* status fields of that event: both collections hold the events, at the
\* positions, they hold when that override is not stored.
C25_InPlaceUpdate ==
    [][\A m \in PassMembers :
          InPlace(load_overrides(store', m), PassInput(m)) # {}
          => /\ PassWritten(m)
             /\ StrippedSheets(review'[m])
                    = StrippedSheets(WithoutInPlace(load_overrides(store', m),
                                                    PassInput(m)))]_vars

\* a pass that updated a valid row in place and moved another event
C25_Witness ==
    \E a, b \in DOMAIN last_pass :
        /\ last_pass[a].found /\ ~last_pass[a].moved
        /\ last_pass[a].location = "valid" /\ last_pass[a].status = "valid"
        /\ last_pass[b].found /\ last_pass[b].moved

\* the parser's result for the text of a sheet of the batch
ParsedSheet(file) == parse_rows(sheet_text[file], FileYear(file))

\* the sheet has an entry classified Unknown
HasUnknownEntry(p) ==
    \E q \in DOMAIN p.skipped_unknown :
        p.skipped_unknown[q].reason.base = "Unknown or Non-Platform Event"

\* the sheet has entries and none of them gave a valid row
EntriesButNoRow(file, p) ==
    Len(Entries(sheet_text[file], FileYear(file))) > 0 /\ p.rows = <<>>

\* C26: the parse_confidence process_all records for a sheet is below 1.0
\* exactly when the sheet has an Unknown entry or has entries and no valid
\* row; otherwise the sheet has confidence 1.0 and no warning.
C26_ConfidenceRule ==
    \A m \in DOMAIN review :
        \A k \in DOMAIN review[m].sheets :
            /\ review[m].sheets[k].parse_confidence < 10
               <=> \/ HasUnknownEntry(ParsedSheet(review[m].sheets[k].source_file))
                   \/ EntriesButNoRow(review[m].sheets[k].source_file,
                                      ParsedSheet(review[m].sheets[k].source_file))
            /\ review[m].sheets[k].parse_confidence = 10
               => review[m].sheets[k].parsing_warnings = <<>>

\* the entries of one normalized date, in the order of their lines
EntriesOn(d) == EntriesOf(Entries(text, year), d)

\* the output records that carry the date and the occurrence index, each
\* with the list it is in and what it tells of its entry
OutputsAt(d, occ) ==
    {<<"row", i, rows[i].ship>> : i \in RecordsAt(rows, d, occ)}
    \cup {<<"dupe", i, skipped_duplicates[i].ship>> :
             i \in RecordsAt(skipped_duplicates, d, occ)}
    \cup {<<"unknown", i, skipped_unknown[i].raw>> :
             i \in RecordsAt(skipped_unknown, d, occ)}

OutputOccs(d) ==
    {rows[i].occ_idx : i \in RecordsOn(rows, d)}
    \cup {skipped_duplicates[i].occ_idx : i \in RecordsOn(skipped_duplicates, d)}
    \cup {skipped_unknown[i].occ_idx : i \in RecordsOn(skipped_unknown, d)}

\* the record is the one of this entry
RecordOf(rec, e) ==
    IF rec[1] = "unknown" THEN rec[3] = e.raw ELSE rec[3] = match_ship(e.raw)

\* C27: the occurrence indices of the entries of one normalized date are
\* exactly 1..n, each used once, and the k-th entry of the date in the order
\* of the text has index k, whatever entries of other dates stand between.
C27_OccurrenceIndices ==
    Parsed =>
        \A d \in TextDates :
            /\ OutputOccs(d) = 1..Len(EntriesOn(d))
            /\ \A k \in 1..Len(EntriesOn(d)) :
                  /\ Cardinality(OutputsAt(d, k)) = 1
                  /\ \A rec \in OutputsAt(d, k) : RecordOf(rec, EntriesOn(d)[k])

\* a date with two entries of different ships, an entry of another date
\* between them
C27_Witness ==
    /\ pc = "parsed"
    /\ \E i, j \in DOMAIN text :
          /\ j > i + 1
          /\ text[i].dt # NoDate /\ text[j].dt # NoDate /\ text[i + 1].dt # NoDate
          /\ NormDate(text[i].dt, year) = NormDate(text[j].dt, year)
          /\ NormDate(text[i + 1].dt, year) # NormDate(text[i].dt, year)
          /\ text[i].toks # text[j].toks
          /\ Len(EntriesOn(NormDate(text[i].dt, year))) = 2
          /\ OutputsAt(NormDate(text[i].dt, year), 2) # {}

\* the (date, occurrence index) pairs of a list of records
Pairs(recs) == {<<recs[i].date, recs[i].occ_idx>> : i \in DOMAIN recs}

\* C30: every date-anchored entry of the text gives exactly one record of
\* parse_rows, a valid row, a duplicate record or an invalid record: the
\* three lists together have as many records as there are entries, and no
\* (date, occurrence index) pair is on two records.
C30_EntryConservation ==
    Parsed =>
        /\ Len(rows) + Len(skipped_duplicates) + Len(skipped_unknown)
               = Len(Entries(text, year))
        /\ Cardinality(Pairs(rows) \cup Pairs(skipped_duplicates)
                       \cup Pairs(skipped_unknown))
               = Len(Entries(text, year))

\* a text whose three entries give a valid row, two duplicates, or a row, a
\* duplicate and an invalid record
C30_Witness ==
    /\ pc = "parsed"
    /\ Len(Entries(text, year)) = 3
    /\ Len(rows) = 1
    /\ Len(skipped_duplicates) >= 1
    /\ Len(skipped_duplicates) + Len(skipped_unknown) = 2

(***************************************************************************)
(* Store claims (checked under SpecSave)                                   *)
(***************************************************************************)
SamePair(a, b) ==
    a.sheet_file = b.sheet_file /\ a.event_index = b.event_index

OnePerPair(ovs) ==
    \A i, j \in DOMAIN ovs : i # j => ~SamePair(ovs[i], ovs[j])

\* new is old with the entry of e's pair removed and e appended last
Replaces(old, new, e) ==
    new = SelectSeq(old, LAMBDA ov : ~SamePair(ov, e)) \o <<e>>

\* C28: after every save_override the store holds at most one override per
\* (sheet_file, event_index); the save removes the pair's old entry, appends
\* the new one last and leaves the other entries as they were, in order.
C28_OnePerEvent ==
    [][\A m \in Members :
          store'[override_path(m)] # store[override_path(m)]
          => /\ load_overrides(store', m) # <<>>
             /\ OnePerPair(load_overrides(store', m))
             /\ Replaces(load_overrides(store, m), load_overrides(store', m),
                         load_overrides(store', m)[Len(load_overrides(store', m))])]_vars

\* two overrides stored earlier, then a save for a third event, then a save
\* that replaced the third event's override: the earlier two still first
C28_Witness ==
    /\ clock = 2
    /\ \E m \in Members :
          /\ Len(load_overrides(store, m)) = 3
          /\ load_overrides(store, m)[1].timestamp = 0
          /\ load_overrides(store, m)[2].timestamp = 0
          /\ load_overrides(store, m)[3].timestamp = 2

(***************************************************************************)
(* Store claims (checked under SpecKeys)                                   *)
(***************************************************************************)
\* C29: save_override and clear_overrides for one subject never change the
\* overrides another subject key loads, whatever the two different keys are.
C29_StorePartitioned ==
    [][\A b \in KeyInputs :
          b # req'[1].member_key
          => load_overrides(store', b) = load_overrides(store, b)]_vars

(***************************************************************************)
(* Store claims (checked under SpecCorrupt)                                *)
(***************************************************************************)
Corrupt(f) == f.exists /\ f.shape \in {"unreadable", "not_record"}

\* C22: an unreadable or malformed override file is handled as an empty
\* override set, and no step overwrites, truncates or deletes it.
C22_CorruptStoreUntouched ==
    [][\A p \in Paths : Corrupt(store[p]) => store'[p] = store[p]]_vars

(***************************************************************************)
(* Report claims (checked under SpecReport)                                *)
(***************************************************************************)
\* a period of the list covers the day of the ship
Covers(periods, ship, day) ==
    \E k \in DOMAIN periods :
        /\ Str(periods[k].ship) = ship
        /\ periods[k].start <= day /\ day <= periods[k].end

\* C23: in a run of process_all, a stored override that invalidates a valid
\* day is reflected in the summary and in the periods the same run writes:
\* no written period covers the day.
C23_ReportsReconciled ==
    (job.at = "finished" /\ trail = "processed") =>
        \A m \in Members :
            \A a \in DOMAIN last_pass :
                (last_pass[a].moved /\ last_pass[a].location = "valid")
                => /\ ~Covers(job.written[m].periods, last_pass[a].sig_before[2],
                              Strptime(last_pass[a].sig_before[1]))
                   /\ ~Covers(job.pg13[m], last_pass[a].sig_before[2],
                              Strptime(last_pass[a].sig_before[1]))

(***************************************************************************)
(* Locator claims (checked under SpecLocator)                              *)
(***************************************************************************)
\* the collection and position apply_overrides reads from a stored locator
Decoded(e) ==
    IF e >= 0 THEN [target |-> "row", event_index |-> e]
    ELSE [target |-> "invalid", event_index |-> -e - 1]

\* the entry the last accepted request left in the store
LastStored ==
    load_overrides(store, req[1].member_key)[
        Len(load_overrides(store, req[1].member_key))]

\* C24: the locator stored for an accepted request with target t and index i
\* decodes in apply_overrides to collection t at position i, and accepted
\* requests with different (target, index) pairs get different locators.
C24_LocatorEncoding ==
    req # NoRequests =>
        /\ Decoded(LastStored.event_index)
               = [target |-> req[1].target, event_index |-> req[1].event_index]
        /\ \A t \in {"row", "invalid"}, i \in RequestIndexInputs :
              <<t, i>> # <<req[1].target, req[1].event_index>>
              => StoreIndex(t, i) # LastStored.event_index

====
